---- MODULE Spec2Model ----
(***************************************************************************)
(* Model of the intecture/auth certificate service: the administrative API *)
(* (api.rs), the certificate cache (cert_cache.rs), the disk persistence   *)
(* backend (storage/disk.rs), the XPUB/XSUB proxy (zap_proxy.rs), the      *)
(* error handler of the service (server.rs) and the client-side ZAP worker *)
(* (zap_handler.rs).                                                       *)
(*                                                                         *)
(* A frame is a tagged tuple:                                              *)
(*   <<"str", s>>        a text frame                                      *)
(*   <<"pub", k>>        the Z85 text of the public key of keypair k       *)
(*   <<"sec", k>>        the Z85 text of the secret key of keypair k       *)
(*   <<"meta", n, t>>    the encoded metadata (name n, type text t)        *)
(*   <<"raw", bytes>>    a raw frame, bytes a sequence of 0..255           *)
(*   <<"bin", i>>        a frame that is not valid UTF-8                   *)
(* A message is a sequence of frames.                                      *)
(***************************************************************************)
EXTENDS Integers, Sequences, FiniteSets, TLC

\* ---------------------------------------------------------------- bounds
MaxKeys == 2
MaxQueue == 1

\* ------------------------------------------------------- input alphabets
Names == {"luke", "r2d2"}
TypeToks == {"host", "user", "moo"}
NoMeta == "<absent>"
ServerName == "auth"
SelfKey == 0
RouterId == <<"str", "router_id">>

Keys == 0..MaxKeys

\* bytes of the texts that occur as subscription topics
Bytes(s) ==
    CASE s = ""     -> <<>>
      [] s = "host" -> <<104, 111, 115, 116>>
      [] s = "user" -> <<117, 115, 101, 114>>
      [] s = "h"    -> <<104>>
      [] s = "moo"  -> <<109, 111, 111>>
      [] s = "luke" -> <<108, 117, 107, 101>>
      [] s = "r2d2" -> <<114, 50, 100, 50>>
      [] OTHER      -> <<0>>

TopicTexts == {"", "host", "user", "h", "moo"}

IsPrefix(p, s) == Len(p) <= Len(s) /\ SubSeq(s, 1, Len(p)) = p

\* all enumerations of a finite set, the orders a HashMap iteration can take
RECURSIVE Orderings(_)
Orderings(S) ==
    IF S = {} THEN {<<>>}
    ELSE UNION {{<<x>> \o s : s \in Orderings(S \ {x})} : x \in S}

\* ------------------------------------------------------------- cert.rs
\* CertType::from_str; "Err" stands for Err(InvalidCertMeta)
from_str(ctype) ==
    CASE ctype = "host" -> "Host"
      [] ctype = "user" -> "User"
      [] OTHER          -> "Err"

to_str(ct) == IF ct = "Host" THEN "host" ELSE "user"

\* a certificate: keypair k with its name and type
Cert_new(name, ct, k) == [name |-> name, cert_type |-> ct, key |-> k]

public_txt(cert) == <<"pub", cert.key>>
secret_txt(cert) == <<"sec", cert.key>>
encode_meta(cert) == <<"meta", cert.name, to_str(cert.cert_type)>>

\* Cert::from_zcert on a zcert with public key k and decoded meta frame;
\* the result is [err, cert]
Cert_from_zcert(k, meta) ==
    IF meta[2] = NoMeta THEN [err |-> "InvalidCert", cert |-> <<>>]
    ELSE IF meta[3] = NoMeta THEN [err |-> "InvalidCert", cert |-> <<>>]
    ELSE IF from_str(meta[3]) = "Err" THEN [err |-> "InvalidCertMeta", cert |-> <<>>]
    ELSE [err |-> "", cert |-> Cert_new(meta[2], from_str(meta[3]), k)]

\* true when frame.data() yields Ok(String)
IsText(f) == f[1] \in {"str", "pub", "sec"}

\* -------------------------------------------------------- cert_cache.rs
\* A cache is a function from the key ids it holds to certificates.
EmptyCache == [k \in {} |-> <<>>]

CacheInsert(c, cert) ==
    [k \in DOMAIN c \cup {cert.key} |-> IF k = cert.key THEN cert ELSE c[k]]

CacheRemove(c, k) == [j \in DOMAIN c \ {k} |-> c[j]]

RECURSIVE CertCache_new(_)
CertCache_new(certs) ==
    IF certs = <<>> THEN EmptyCache
    ELSE CacheInsert(CertCache_new(SubSeq(certs, 1, Len(certs) - 1)), certs[Len(certs)])

CertCache_get(c, pubkey) ==
    IF pubkey[1] = "pub" /\ pubkey[2] \in DOMAIN c THEN {c[pubkey[2]]} ELSE {}

\* the certificates get_name can return: the first one of that name the
\* iteration meets, so any of them; {} stands for None
CertCache_get_name(c, name) == {c[k] : k \in {j \in DOMAIN c : c[j].name = name}}

\* the set of certificates dump collects (their order is the iteration's)
CertCache_dump(c, ct) == {c[k] : k \in {j \in DOMAIN c : c[j].cert_type = ct}}

\* a variant of SendMatches that ignores the topic
SendMatches_all(c, topic) == DOMAIN c

\* topic is "None", "Host" or "User"
SendMatches(c, topic) ==
    {k \in DOMAIN c : topic = "None" \/ c[k].cert_type = topic}

RECURSIVE SendPairs(_, _)
SendPairs(c, order) ==
    IF order = <<>> THEN <<>>
    ELSE <<public_txt(c[Head(order)]), encode_meta(c[Head(order)])>>
            \o SendPairs(c, Tail(order))

\* a variant of send that sends the topic and the action also when no
\* certificate matches
CertCache_send_always(c, topic) ==
    {<<<<"str", IF topic = "None" THEN "" ELSE to_str(topic)>>, <<"str", "ADD">>>>
         \o SendPairs(c, o) : o \in Orderings(SendMatches(c, topic))}

\* the messages CertCache::send can put on the socket: one per iteration
\* order, none when no certificate matches (msg.size() > 2 fails)
CertCache_send(c, topic) ==
    IF SendMatches(c, topic) = {} THEN {}
    ELSE {<<<<"str", IF topic = "None" THEN "" ELSE to_str(topic)>>, <<"str", "ADD">>>>
              \o SendPairs(c, o) : o \in Orderings(SendMatches(c, topic))}

\* a variant of the ADD loop that stops after the first certificate
RecvAdd_one_pair(c, msg, i) ==
    IF i > Len(msg) THEN [cache |-> c, err |-> ""]
    ELSE IF ~IsText(msg[i]) THEN [cache |-> c, err |-> "InvalidCertFeed"]
    ELSE IF i + 1 > Len(msg) THEN [cache |-> c, err |-> ""]
    ELSE IF msg[i + 1][1] # "meta" THEN [cache |-> c, err |-> "Czmq"]
    ELSE LET r == Cert_from_zcert(msg[i][2], msg[i + 1])
         IN  IF r.err # "" THEN [cache |-> c, err |-> r.err]
             ELSE [cache |-> CacheInsert(c, r.cert), err |-> ""]

\* the ADD loop of CertCache::recv from frame i on
RECURSIVE RecvAdd(_, _, _)
RecvAdd(c, msg, i) ==
    IF i > Len(msg) THEN [cache |-> c, err |-> ""]
    ELSE IF ~IsText(msg[i]) THEN [cache |-> c, err |-> "InvalidCertFeed"]
    ELSE IF i + 1 > Len(msg) THEN [cache |-> c, err |-> ""]
    ELSE IF msg[i + 1][1] # "meta" THEN [cache |-> c, err |-> "Czmq"]
    ELSE LET r == Cert_from_zcert(msg[i][2], msg[i + 1])
         IN  IF r.err # "" THEN [cache |-> c, err |-> r.err]
             ELSE RecvAdd(CacheInsert(c, r.cert), msg, i + 2)

\* CertCache::recv applied to a received message: the cache afterwards and
\* the error ("" when it returns Ok(msg))
CertCache_recv(c, msg) ==
    IF Len(msg) < 2 THEN [cache |-> c, err |-> "InvalidCertFeed"]
    ELSE IF ~IsText(msg[2]) THEN [cache |-> c, err |-> "InvalidCertFeed"]
    ELSE IF msg[2] = <<"str", "ADD">> THEN RecvAdd(c, msg, 3)
    ELSE IF msg[2] = <<"str", "DEL">> THEN
        IF Len(msg) < 3 \/ ~IsText(msg[3]) THEN [cache |-> c, err |-> "InvalidCertFeed"]
        ELSE [cache |-> IF msg[3][1] = "pub" THEN CacheRemove(c, msg[3][2]) ELSE c,
              err |-> ""]
    ELSE [cache |-> c, err |-> "InvalidCertFeed"]

\* ------------------------------------------------------------- error.rs
description(err) ==
    CASE err = "CertNameCollision" -> "Certificate name already exists"
      [] err = "Forbidden"         -> "Access to this endpoint is forbidden"
      [] err = "InvalidArg"        -> "Invalid argument provided"
      [] err = "InvalidArgsCount"  -> "Invalid number of args provided"
      [] err = "InvalidCert"       -> "Invalid certificate"
      [] err = "InvalidCertFeed"   -> "Invalid message from certificate feed"
      [] err = "InvalidCertMeta"   -> "Invalid certificate metadata"
      [] err = "Io"                -> "IO error"
      [] OTHER                     -> "CZMQ error"

\* -------------------------------------------------------------- zmsg.rs
new_ok == <<<<"str", "Ok">>>>
new_err(err) == <<<<"str", "Err">>, <<"str", description(err)>>>>

\* ZMsg::expect_recv(sock, min, Some(max), false) on the frames left of the
\* request: "" when the count is accepted
expect_recv(args, min, max) ==
    IF min > Len(args) \/ max < Len(args) THEN "InvalidArgsCount" ELSE ""

\* ------------------------------------------------------ request_meta.rs
\* RequestMeta::new on the metadata of the endpoint frame
RequestMeta_new(peer) ==
    IF peer.name = NoMeta THEN [err |-> "InvalidCert", cert_type |-> "Err"]
    ELSE IF peer.type = NoMeta THEN [err |-> "InvalidCert", cert_type |-> "Err"]
    ELSE IF from_str(peer.type) = "Err" THEN [err |-> "InvalidCertMeta", cert_type |-> "Err"]
    ELSE [err |-> "", cert_type |-> from_str(peer.type)]

\* ----------------------------------------------------------- variables
VARIABLES
    files,       \* storage/disk.rs: the .crt files of cert_path, by name
    name_cache,  \* PersistDisk.name_cache: name -> key
    cert_cache,  \* the server's CertCache
    nextKey,     \* the next keypair ZCert::new generates
    pubQ,        \* messages in flight from the API's PUB to the proxy's XSUB
    subs,        \* the event topics the XSUB is subscribed to upstream
    feedQ,       \* messages in flight from the XPUB to the worker's SUB
    wstate,      \* worker's SUB: "init", "registered", "subscribed", "closed"
    wtopic,      \* the topic the ZAP worker subscribes to
    wcache,      \* the ZAP worker's CertCache
    wrunning,    \* the worker loop has not returned
    allow_self,  \* the allow_self argument of ZapHandler::new
    wlog,        \* history: per key, the action of the last update event the
                 \* worker applied for it, "" when there was none
    apiOut,      \* messages the last step sent on the API socket
    pubOut,      \* messages the last step sent on the API's publisher
    xpubOut,     \* messages the last step sent on the XPUB
    xsubOut,     \* messages the last step sent on the XSUB
    zapOut,      \* messages the last step sent on the zap REP socket
    last,        \* the last step: its operation and the error it returned; the
                 \* peer type of an API request and the sockets the handler sent
                 \* on, in the order of the sends; the message of a subscription
                 \* and whether the XSUB received the events of its topic
                 \* already; the request of a ZAP step
    proc,        \* the server process: what start finds on the machine, where
                 \* main and the service thread are, and the exit code
    comm,        \* payloads in flight on the pipe from the ZapHandler to its worker
    handler      \* the ZapHandler: "owned", "joining" (in drop) or "joined"

vars == <<files, name_cache, cert_cache, nextKey, pubQ, subs, feedQ, wstate,
          wtopic, wcache, wrunning, allow_self, wlog, apiOut, pubOut, xpubOut, xsubOut, zapOut,
          last, proc, comm, handler>>

serverVars == <<files, name_cache, cert_cache, nextKey, pubQ, subs>>
workerVars == <<wstate, wtopic, wcache, wrunning, allow_self, wlog>>
lifeVars == <<proc, comm, handler>>

NoStep == [op |-> "init", err |-> ""]

\* ------------------------------------------------------- transport rules
\* first frame of a feed message as bytes
TopicBytes(msg) == IF msg[1][1] = "str" THEN Bytes(msg[1][2]) ELSE <<0>>

\* the topics of the events the API publishes
EventTopics == {"host", "user"}

\* the PUB passes an event on when the XSUB is subscribed to its topic
Subscribed(topics, msg) ==
    \E t \in topics : Bytes(t) = TopicBytes(msg)

\* messages sent on the API's publisher reach the XSUB when it subscribed
PubDeliver(q, topics, msgs) ==
    q \o SelectSeq(msgs, LAMBDA m : Subscribed(topics, m))

\* messages sent on the XPUB reach the worker's SUB once it is connected
WorkerGets(st, topic, msg) ==
    st \in {"registered", "subscribed"} /\ IsPrefix(Bytes(topic), TopicBytes(msg))

FeedDeliver(q, st, topic, msgs) ==
    q \o SelectSeq(msgs, LAMBDA m : WorkerGets(st, topic, m))

\* ------------------------------------------------------ storage/disk.rs
EmptyStore == [n \in {} |-> <<>>]

\* a variant of create that writes over a certificate of the same name
PersistDisk_create_overwrites(fs, nc, cert, disk_ok) ==
    IF ~disk_ok THEN [err |-> "Czmq", files |-> fs, name_cache |-> nc]
    ELSE [err |-> "",
          files |-> [n \in DOMAIN fs \cup {cert.name} |-> IF n = cert.name THEN cert ELSE fs[n]],
          name_cache |-> [n \in DOMAIN nc \cup {cert.name} |->
                              IF n = cert.name THEN cert.key ELSE nc[n]]]

PersistDisk_create(fs, nc, cert, disk_ok) ==
    IF cert.name \in DOMAIN nc THEN [err |-> "CertNameCollision", files |-> fs, name_cache |-> nc]
    ELSE IF ~disk_ok THEN [err |-> "Czmq", files |-> fs, name_cache |-> nc]
    ELSE [err |-> "",
          files |-> [n \in DOMAIN fs \cup {cert.name} |-> IF n = cert.name THEN cert ELSE fs[n]],
          name_cache |-> [n \in DOMAIN nc \cup {cert.name} |->
                              IF n = cert.name THEN cert.key ELSE nc[n]]]

PersistDisk_read(fs, nc, name) ==
    IF name \notin DOMAIN fs THEN [err |-> "Czmq", cert |-> <<>>, name_cache |-> nc]
    ELSE [err |-> "", cert |-> fs[name],
          name_cache |-> [n \in DOMAIN nc \cup {name} |-> IF n = name THEN fs[name].key ELSE nc[n]]]

\* a variant of delete that leaves the name in the name cache
PersistDisk_delete_keeps_name(fs, nc, name) ==
    IF name \notin DOMAIN fs THEN [err |-> "Io", files |-> fs, name_cache |-> nc]
    ELSE [err |-> "",
          files |-> [n \in DOMAIN fs \ {name} |-> fs[n]],
          name_cache |-> nc]

PersistDisk_delete(fs, nc, name) ==
    IF name \notin DOMAIN fs THEN [err |-> "Io", files |-> fs, name_cache |-> nc]
    ELSE [err |-> "",
          files |-> [n \in DOMAIN fs \ {name} |-> fs[n]],
          name_cache |-> [n \in DOMAIN nc \ {name} |-> nc[n]]]

\* the set of certificates dump returns
PersistDisk_dump(fs) == {fs[n] : n \in DOMAIN fs}

\* the name cache after dump: it reads every certificate file, and each read
\* enters the certificate's name and public key
PersistDisk_dump_names(fs, nc) ==
    [n \in DOMAIN nc \cup DOMAIN fs |->
        IF n \in DOMAIN fs THEN PersistDisk_read(fs, nc, n).name_cache[n] ELSE nc[n]]

\* PersistDisk::new on the certificate directory: the name cache is warmed
\* by a dump
PersistDisk_new(fs) == PersistDisk_dump_names(fs, [n \in {} |-> 0])

\* ------------------------------------------------------------ server.rs
\* a variant of error_handler that pushes no empty frame
error_handler_no_delimiter(router_id, err) ==
    IF err = "" THEN <<>>
    ELSE <<<<router_id>> \o new_err(err)>>

\* error_handler: the frames it sends for Err(e), nothing for Ok
error_handler(router_id, err) ==
    IF err = "" THEN <<>>
    ELSE <<<<router_id, <<"str", "">>>> \o new_err(err)>>

\* --------------------------------------------------------------- api.rs
\* the messages of sent, a sequence of <<socket, message>>, that went to sock
SentOn(sent, sock) ==
    IF sent = <<>> THEN <<>>
    ELSE LET on == SelectSeq(sent, LAMBDA x : x[1] = sock)
         IN  [i \in 1..Len(on) |-> on[i][2]]

\* The outcome of a handler: the error it returns ("" for Ok), what it sent
\* in the order of the sends, each message with its socket ("api" or
\* "publisher"), the replies and the published messages among them, and the
\* persistence state and key counter it leaves; read is the number of argument
\* frames the handler took from the API socket.
Outcome(err, sent, fs, nc, nk) ==
    [err |-> err, sent |-> sent, read |-> 0,
     replies |-> SentOn(sent, "api"), pubs |-> SentOn(sent, "publisher"),
     files |-> fs, name_cache |-> nc, nextKey |-> nk]

Failed(err, fs, nc, nk) == Outcome(err, <<>>, fs, nc, nk)

\* the handler receives the rest of the request from the API socket and
\* goes on to one of the outcomes os
Recv(args, os) == {[o EXCEPT !.read = Len(args)] : o \in os}

NameFrames(certs, order) == [i \in 1..Len(order) |-> <<"str", order[i].name>>]

\* a variant of list that sends the Ok reply before it looks at the type
CertApi_list_reply_first(c, fs, nc, nk, args, router_id) ==
    Recv(args,
    IF expect_recv(args, 1, 1) # "" THEN {Failed("InvalidArgsCount", fs, nc, nk)}
    ELSE IF ~IsText(args[1]) THEN {Failed("InvalidArg", fs, nc, nk)}
    ELSE IF from_str(args[1][2]) = "Err"
        THEN {Outcome("InvalidCertMeta", <<<<"api", <<router_id>> \o new_ok>>>>, fs, nc, nk)}
    ELSE {Outcome("", <<<<"api", <<router_id>> \o new_ok \o NameFrames(c, o)>>>>, fs, nc, nk) :
              o \in Orderings(CertCache_dump(c, from_str(args[1][2])))})

\* CertApi::list
CertApi_list(c, fs, nc, nk, args, router_id) ==
    Recv(args,
    IF expect_recv(args, 1, 1) # "" THEN {Failed("InvalidArgsCount", fs, nc, nk)}
    ELSE IF ~IsText(args[1]) THEN {Failed("InvalidArg", fs, nc, nk)}
    ELSE IF from_str(args[1][2]) = "Err" THEN {Failed("InvalidCertMeta", fs, nc, nk)}
    ELSE {Outcome("", <<<<"api", <<router_id>> \o new_ok \o NameFrames(c, o)>>>>, fs, nc, nk) :
              o \in Orderings(CertCache_dump(c, from_str(args[1][2])))})

\* CertApi::lookup
CertApi_lookup(c, fs, nc, nk, args, router_id) ==
    Recv(args,
    IF expect_recv(args, 1, 1) # "" THEN {Failed("InvalidArgsCount", fs, nc, nk)}
    ELSE IF ~IsText(args[1]) THEN {Failed("InvalidArg", fs, nc, nk)}
    ELSE IF CertCache_get_name(c, args[1][2]) = {} THEN {Failed("InvalidCert", fs, nc, nk)}
    ELSE {Outcome("", <<<<"api", <<router_id>> \o new_ok \o <<public_txt(cert)>>>>>>, fs, nc, nk) :
              cert \in CertCache_get_name(c, args[1][2])})

\* a variant of do_create that replies before it publishes
CertApi_do_create_reply_first(fs, nc, nk, args, router_id, disk_ok) ==
    Recv(args,
    IF expect_recv(args, 2, 2) # "" THEN {Failed("InvalidArgsCount", fs, nc, nk)}
    ELSE IF ~IsText(args[1]) THEN {Failed("InvalidCertMeta", fs, nc, nk)}
    ELSE IF from_str(args[1][2]) = "Err" THEN {Failed("InvalidCertMeta", fs, nc, nk)}
    ELSE IF ~IsText(args[2]) THEN {Failed("InvalidCertMeta", fs, nc, nk)}
    ELSE LET cert == Cert_new(args[2][2], from_str(args[1][2]), nk)
             p == PersistDisk_create(fs, nc, cert, disk_ok)
         IN  IF p.err # "" THEN {Failed(p.err, fs, nc, nk + 1)}
             ELSE {Outcome("",
                      <<<<"api", <<router_id>> \o new_ok
                            \o <<public_txt(cert), secret_txt(cert), encode_meta(cert)>>>>,
                        <<"publisher", <<<<"str", to_str(cert.cert_type)>>, <<"str", "ADD">>,
                                         public_txt(cert), encode_meta(cert)>>>>>>,
                      p.files, p.name_cache, nk + 1)})

\* a variant of do_create that publishes the secret key with the event
CertApi_do_create_leaky(fs, nc, nk, args, router_id, disk_ok) ==
    Recv(args,
    IF expect_recv(args, 2, 2) # "" THEN {Failed("InvalidArgsCount", fs, nc, nk)}
    ELSE IF ~IsText(args[1]) THEN {Failed("InvalidCertMeta", fs, nc, nk)}
    ELSE IF from_str(args[1][2]) = "Err" THEN {Failed("InvalidCertMeta", fs, nc, nk)}
    ELSE IF ~IsText(args[2]) THEN {Failed("InvalidCertMeta", fs, nc, nk)}
    ELSE LET cert == Cert_new(args[2][2], from_str(args[1][2]), nk)
             p == PersistDisk_create(fs, nc, cert, disk_ok)
         IN  IF p.err # "" THEN {Failed(p.err, fs, nc, nk + 1)}
             ELSE {Outcome("",
                      <<<<"publisher", <<<<"str", to_str(cert.cert_type)>>, <<"str", "ADD">>,
                                         public_txt(cert), secret_txt(cert), encode_meta(cert)>>>>,
                        <<"api", <<router_id>> \o new_ok
                            \o <<public_txt(cert), secret_txt(cert), encode_meta(cert)>>>>>>,
                      p.files, p.name_cache, nk + 1)})

\* CertApi::do_create; disk_ok is false when save_public fails
CertApi_do_create(fs, nc, nk, args, router_id, disk_ok) ==
    Recv(args,
    IF expect_recv(args, 2, 2) # "" THEN {Failed("InvalidArgsCount", fs, nc, nk)}
    ELSE IF ~IsText(args[1]) THEN {Failed("InvalidCertMeta", fs, nc, nk)}
    ELSE IF from_str(args[1][2]) = "Err" THEN {Failed("InvalidCertMeta", fs, nc, nk)}
    ELSE IF ~IsText(args[2]) THEN {Failed("InvalidCertMeta", fs, nc, nk)}
    ELSE LET cert == Cert_new(args[2][2], from_str(args[1][2]), nk)
             p == PersistDisk_create(fs, nc, cert, disk_ok)
         IN  IF p.err # "" THEN {Failed(p.err, fs, nc, nk + 1)}
             ELSE {Outcome("",
                      <<<<"publisher", <<<<"str", to_str(cert.cert_type)>>, <<"str", "ADD">>,
                                         public_txt(cert), encode_meta(cert)>>>>,
                        <<"api", <<router_id>> \o new_ok
                            \o <<public_txt(cert), secret_txt(cert), encode_meta(cert)>>>>>>,
                      p.files, p.name_cache, nk + 1)})

\* a variant of create that lets every peer in
CertApi_create_open(fs, nc, nk, peer, args, router_id, disk_ok) ==
    IF RequestMeta_new(peer).err # "" THEN {Failed(RequestMeta_new(peer).err, fs, nc, nk)}
    ELSE CertApi_do_create(fs, nc, nk, args, router_id, disk_ok)

\* CertApi::create
CertApi_create(fs, nc, nk, peer, args, router_id, disk_ok) ==
    IF RequestMeta_new(peer).err # "" THEN {Failed(RequestMeta_new(peer).err, fs, nc, nk)}
    ELSE IF RequestMeta_new(peer).cert_type # "User" THEN {Failed("Forbidden", fs, nc, nk)}
    ELSE CertApi_do_create(fs, nc, nk, args, router_id, disk_ok)

\* a variant of do_delete that publishes the name in place of the public key
CertApi_do_delete_by_name(fs, nc, nk, args, router_id) ==
    Recv(args,
    IF expect_recv(args, 1, 1) # "" THEN {Failed("InvalidArgsCount", fs, nc, nk)}
    ELSE IF ~IsText(args[1]) THEN {Failed("InvalidCert", fs, nc, nk)}
    ELSE LET r == PersistDisk_read(fs, nc, args[1][2])
             d == PersistDisk_delete(fs, r.name_cache, args[1][2])
         IN  IF r.err # "" THEN {Failed(r.err, fs, r.name_cache, nk)}
             ELSE IF d.err # "" THEN {Failed(d.err, d.files, d.name_cache, nk)}
             ELSE {Outcome("",
                      <<<<"publisher", <<<<"str", to_str(r.cert.cert_type)>>, <<"str", "DEL">>,
                                         <<"str", r.cert.name>>>>>>,
                        <<"api", <<router_id>> \o new_ok>>>>,
                      d.files, d.name_cache, nk)})

\* CertApi::do_delete
CertApi_do_delete(fs, nc, nk, args, router_id) ==
    Recv(args,
    IF expect_recv(args, 1, 1) # "" THEN {Failed("InvalidArgsCount", fs, nc, nk)}
    ELSE IF ~IsText(args[1]) THEN {Failed("InvalidCert", fs, nc, nk)}
    ELSE LET r == PersistDisk_read(fs, nc, args[1][2])
             d == PersistDisk_delete(fs, r.name_cache, args[1][2])
         IN  IF r.err # "" THEN {Failed(r.err, fs, r.name_cache, nk)}
             ELSE IF d.err # "" THEN {Failed(d.err, d.files, d.name_cache, nk)}
             ELSE {Outcome("",
                      <<<<"publisher", <<<<"str", to_str(r.cert.cert_type)>>, <<"str", "DEL">>,
                                         public_txt(r.cert)>>>>,
                        <<"api", <<router_id>> \o new_ok>>>>,
                      d.files, d.name_cache, nk)})

\* a variant of delete that receives the request before it looks at the peer
CertApi_delete_recv_first(fs, nc, nk, peer, args, router_id) ==
    Recv(args,
    IF RequestMeta_new(peer).err # "" THEN {Failed(RequestMeta_new(peer).err, fs, nc, nk)}
    ELSE IF RequestMeta_new(peer).cert_type # "User" THEN {Failed("Forbidden", fs, nc, nk)}
    ELSE CertApi_do_delete(fs, nc, nk, args, router_id))

\* CertApi::delete
CertApi_delete(fs, nc, nk, peer, args, router_id) ==
    IF RequestMeta_new(peer).err # "" THEN {Failed(RequestMeta_new(peer).err, fs, nc, nk)}
    ELSE IF RequestMeta_new(peer).cert_type # "User" THEN {Failed("Forbidden", fs, nc, nk)}
    ELSE CertApi_do_delete(fs, nc, nk, args, router_id)

\* ----------------------------------------------------------- the inputs
AnyPeer == [name |-> "admin", type |-> "user"]

Peers == {[name |-> "admin", type |-> t] : t \in {"user", "host", NoMeta}}

ListArgs ==
    {<<<<"str", "user">>, <<"str", "luke">>>>} \cup {<<<<"str", t>>>> : t \in TypeToks}

LookupArgs == {<<>>, <<<<"bin", 0>>>>} \cup {<<<<"str", n>>>> : n \in Names}

\* luke is a user and r2d2 a host
CreateArgs ==
    {<<<<"str", "user">>>>,
     <<<<"str", "user">>, <<"str", "luke">>>>, <<<<"str", "host">>, <<"str", "r2d2">>>>,
     <<<<"str", "moo">>, <<"str", "luke">>>>, <<<<"bin", 0>>, <<"str", "luke">>>>,
     <<<<"str", "user">>, <<"bin", 0>>>>}

\* the requests: the peer, the argument frames and whether the disk takes
\* the write; a peer that is not let in is tried with one request only, and
\* the disk refuses the write of one request
CreateInputs ==
    {<<AnyPeer, args, TRUE>> : args \in CreateArgs}
        \cup {<<peer, <<<<"str", "user">>, <<"str", "luke">>>>, TRUE>> : peer \in Peers}
        \cup {<<AnyPeer, <<<<"str", "user">>, <<"str", "luke">>>>, FALSE>>}

DeleteInputs ==
    {<<AnyPeer, args>> : args \in LookupArgs}
        \cup {<<peer, <<<<"str", "luke">>>>>> : peer \in Peers}

\* ------------------------------------------------- service loop: the API
\* One dispatch of the API endpoint (server.rs, the closures of start):
\* the handler runs, then error_handler replies for an Err.
Dispatch(op, peer, args, o) ==
    /\ Len(PubDeliver(pubQ, subs, o.pubs)) <= MaxQueue
    /\ o.nextKey <= MaxKeys + 1
    /\ files' = o.files
    /\ name_cache' = o.name_cache
    /\ nextKey' = o.nextKey
    /\ pubQ' = PubDeliver(pubQ, subs, o.pubs)
    /\ pubOut' = o.pubs
    /\ apiOut' = o.replies \o error_handler(RouterId, o.err)
    /\ xpubOut' = <<>>
    /\ xsubOut' = <<>>
    /\ zapOut' = <<>>
    /\ last' = [op |-> op, err |-> o.err, peer |-> peer.type, read |-> o.read,
                order |-> [i \in 1..Len(o.sent) |-> o.sent[i][1]]]
    /\ UNCHANGED <<cert_cache, subs, feedQ, workerVars, lifeVars>>

ApiList ==
    \E peer \in {AnyPeer}, args \in ListArgs :
        \E o \in CertApi_list(cert_cache, files, name_cache, nextKey, args, RouterId) :
            Dispatch("cert::list", peer, args, o)

ApiLookup ==
    \E peer \in {AnyPeer}, args \in LookupArgs :
        \E o \in CertApi_lookup(cert_cache, files, name_cache, nextKey, args, RouterId) :
            Dispatch("cert::lookup", peer, args, o)

ApiCreate ==
    \E in \in CreateInputs :
        \E o \in CertApi_create(files, name_cache, nextKey, in[1], in[2], RouterId, in[3]) :
            Dispatch("cert::create", in[1], in[2], o)

ApiDelete ==
    \E in \in DeleteInputs :
        \E o \in CertApi_delete(files, name_cache, nextKey, in[1], in[2], RouterId) :
            Dispatch("cert::delete", in[1], in[2], o)

\* --------------------------------------------------------- zap_proxy.rs
\* the text whose bytes a topic is, when it is one of the texts in use
HasText(bytes) == \E t \in TopicTexts : Bytes(t) = bytes
TextOf(bytes) == CHOOSE t \in TopicTexts : Bytes(t) = bytes

\* str::from_utf8 accepts the bytes
IsUtf8(bytes) == \A i \in 1..Len(bytes) : bytes[i] < 128

\* the event topics a subscription to the topic bytes matches
Covered(bytes) == {e \in EventTopics : IsPrefix(bytes, Bytes(e))}

\* What sending a message on the XSUB does to subs, the event topics the
\* API's publisher passes on to it.  A subscribe frame adds the topics it
\* matches.  The socket counts its subscriptions, one per subscribe frame,
\* so an unsubscribe frame ends the delivery of a topic it matches or leaves
\* it to another subscription; any other frame is passed on as data.
XsubSend(topics, msg) ==
    LET bytes == msg[1][2] IN
    IF bytes = <<>> THEN {topics}
    ELSE IF bytes[1] = 1 THEN {topics \cup Covered(Tail(bytes))}
    ELSE IF bytes[1] = 0 THEN {topics \ gone : gone \in SUBSET Covered(Tail(bytes))}
    ELSE {topics}

\* a variant of the filter that takes a prefix of a type text for the type
TopicFilter_prefix(topic_bytes) ==
    IF Len(topic_bytes) = 0 THEN "None"
    ELSE IF ~IsUtf8(topic_bytes) THEN "Err"
    ELSE IF IsPrefix(topic_bytes, Bytes("host")) THEN "Host"
    ELSE IF IsPrefix(topic_bytes, Bytes("user")) THEN "User"
    ELSE "Err"

\* the filter ZapPublisher::recv derives from the topic bytes of a
\* subscribe frame: "None", "Host", "User", or "Err" when it returns early
TopicFilter(topic_bytes) ==
    IF Len(topic_bytes) = 0 THEN "None"
    ELSE IF ~IsUtf8(topic_bytes) THEN "Err"
    ELSE IF ~HasText(topic_bytes) THEN "Err"
    ELSE from_str(TextOf(topic_bytes))

\* a variant of ZapPublisher::recv that replays the cache for every frame
\* that names a topic, whatever its event code
ZapPublisher_recv_any_code(c, msg) ==
    LET bytes == msg[1][2]
        snap == bytes # <<>>
        filter == IF snap THEN TopicFilter(Tail(bytes)) ELSE "None"
    IN  IF snap /\ filter = "Err"
            THEN {[err |-> IF IsUtf8(Tail(bytes)) THEN "InvalidCertMeta" ELSE "Utf8",
                   xpub |-> <<>>, xsub |-> <<>>]}
        ELSE IF snap /\ CertCache_send(c, filter) # {}
            THEN {[err |-> "", xpub |-> <<m>>, xsub |-> <<msg>>] : m \in CertCache_send(c, filter)}
        ELSE {[err |-> "", xpub |-> <<>>, xsub |-> <<msg>>]}

\* a variant of ZapPublisher::recv that forwards the subscription frame
\* without the frames that follow it
ZapPublisher_recv_frame_only(c, msg) ==
    LET bytes == msg[1][2]
        snap == bytes # <<>> /\ bytes[1] = 1
        filter == IF snap THEN TopicFilter(Tail(bytes)) ELSE "None"
    IN  IF snap /\ filter = "Err"
            THEN {[err |-> IF IsUtf8(Tail(bytes)) THEN "InvalidCertMeta" ELSE "Utf8",
                   xpub |-> <<>>, xsub |-> <<>>]}
        ELSE IF snap /\ CertCache_send(c, filter) # {}
            THEN {[err |-> "", xpub |-> <<m>>, xsub |-> <<<<msg[1]>>>>] :
                      m \in CertCache_send(c, filter)}
        ELSE {[err |-> "", xpub |-> <<>>, xsub |-> <<<<msg[1]>>>>]}

\* ZapPublisher::recv on a message read from the XPUB: its first frame is
\* the subscription frame.  The outcomes: the error ("" for Ok), what was
\* sent on the XPUB and what was sent on the XSUB.
ZapPublisher_recv(c, msg) ==
    LET bytes == msg[1][2]
        snap == bytes # <<>> /\ bytes[1] = 1
        filter == IF snap THEN TopicFilter(Tail(bytes)) ELSE "None"
    IN  IF snap /\ filter = "Err"
            THEN {[err |-> IF IsUtf8(Tail(bytes)) THEN "InvalidCertMeta" ELSE "Utf8",
                   xpub |-> <<>>, xsub |-> <<>>]}
        ELSE IF snap /\ CertCache_send(c, filter) # {}
            THEN {[err |-> "", xpub |-> <<m>>, xsub |-> <<msg>>] : m \in CertCache_send(c, filter)}
        ELSE {[err |-> "", xpub |-> <<>>, xsub |-> <<msg>>]}

\* a variant of ZapSubscriber::recv that caches the event and keeps it
ZapSubscriber_recv_silent(c, msg) ==
    LET r == CertCache_recv(c, msg)
    IN  [err |-> r.err, cache |-> r.cache, xpub |-> <<>>]

\* a variant of ZapSubscriber::recv that forwards the event without its
\* topic frame
ZapSubscriber_recv_no_topic(c, msg) ==
    LET r == CertCache_recv(c, msg)
    IN  [err |-> r.err, cache |-> r.cache, xpub |-> IF r.err = "" THEN <<Tail(msg)>> ELSE <<>>]

\* ZapSubscriber::recv on a message read from the XSUB
ZapSubscriber_recv(c, msg) ==
    LET r == CertCache_recv(c, msg)
    IN  [err |-> r.err, cache |-> r.cache, xpub |-> IF r.err = "" THEN <<msg>> ELSE <<>>]

\* the topic of a subscribe frame, as a set of at most one text
SubTopic(msg) ==
    IF msg[1][2] # <<>> /\ msg[1][2][1] = 1 /\ HasText(Tail(msg[1][2]))
        THEN {TextOf(Tail(msg[1][2]))} ELSE {}

SubFrames ==
    {<<"raw", <<>>>>, <<"raw", <<1, 255>>>>, <<"raw", <<0, 255>>>>}
        \cup {<<"raw", <<1>> \o Bytes(t)>> : t \in {"", "host", "user", "h"}}
        \cup {<<"raw", <<0>> \o Bytes(t)>> : t \in {"", "host", "user"}}

SubMsgs == {<<f>> : f \in SubFrames} \cup {<<f, <<"str", "more">>>> : f \in {<<"raw", <<1>>>>}}

\* --------------------------------------- service loop: the proxy sockets
\* a subscribe frame for a topic whose events the XSUB receives already
Dup(topics, msg) ==
    SubTopic(msg) # {} /\ \A t \in SubTopic(msg) : Covered(Bytes(t)) \subseteq topics

\* what a step of the publisher endpoint leaves, o being the outcome of recv
PublisherSends(msg, of_worker, o) ==
    /\ Len(FeedDeliver(feedQ, wstate, wtopic, o.xpub)) <= MaxQueue
    /\ subs' \in IF o.xsub # <<>> THEN XsubSend(subs, msg) ELSE {subs}
    /\ feedQ' = FeedDeliver(feedQ, wstate, wtopic, o.xpub)
    /\ wstate' = IF of_worker THEN "subscribed" ELSE wstate
    /\ xpubOut' = o.xpub
    /\ xsubOut' = o.xsub
    /\ apiOut' = <<>>
    /\ pubOut' = <<>>
    /\ zapOut' = <<>>
    /\ last' = [op |-> "subscription", err |-> o.err, msg |-> msg, dup |-> Dup(subs, msg)]
    /\ UNCHANGED <<files, name_cache, cert_cache, nextKey, pubQ, wtopic, wcache, wrunning,
                   allow_self, wlog, lifeVars>>

\* a variant of the publisher step that replays the cache for the first
\* subscription to a topic only
ProxyPublisherStep_first_only(msg, of_worker) ==
    \E o \in ZapPublisher_recv(IF Dup(subs, msg) THEN EmptyCache ELSE cert_cache, msg) :
        PublisherSends(msg, of_worker, o)

\* the XPUB is readable: a subscription message of some subscriber, or
\* (of_worker) the one of the ZAP worker's SUB socket.  The XPUB is verbose,
\* so every subscribe frame reaches the endpoint, a repeated one included.
ProxyPublisherStep(msg, of_worker) ==
    \E o \in ZapPublisher_recv(cert_cache, msg) : PublisherSends(msg, of_worker, o)

ProxyPublisher == \E msg \in SubMsgs : ProxyPublisherStep(msg, FALSE)

\* the subscription message is the one of the ZAP worker's SUB socket
ProxyPublisherWorker ==
    /\ wstate = "registered"
    /\ ProxyPublisherStep(<<<<"raw", <<1>> \o Bytes(wtopic)>>>>, TRUE)

\* the XSUB is readable: an event published by the API
ProxySubscriber ==
    /\ pubQ # <<>>
    /\ LET o == ZapSubscriber_recv(cert_cache, Head(pubQ)) IN
        /\ Len(FeedDeliver(feedQ, wstate, wtopic, o.xpub)) <= MaxQueue
        /\ cert_cache' = o.cache
        /\ pubQ' = Tail(pubQ)
        /\ feedQ' = FeedDeliver(feedQ, wstate, wtopic, o.xpub)
        /\ xpubOut' = o.xpub
        /\ last' = [op |-> "event", err |-> o.err]
    /\ xsubOut' = <<>>
    /\ apiOut' = <<>>
    /\ pubOut' = <<>>
    /\ zapOut' = <<>>
    /\ UNCHANGED <<files, name_cache, nextKey, subs, workerVars, lifeVars>>

\* ------------------------------------------------------- zap_handler.rs
THREAD_TERM == "$TERM"

\* zmq::z85_encode of a raw key frame <<"key", k, n>> of n bytes
z85_encode(raw) ==
    IF raw[3] % 4 # 0 THEN [err |-> "ZmqEncode", txt |-> <<"pub", raw[2]>>, len |-> 0]
    ELSE [err |-> "", txt |-> <<"pub", raw[2]>>, len |-> (raw[3] * 5) \div 4]

\* a variant of ZapRequest::new that looks at the key before the version
ZapRequest_new_key_first(version, client_pk) ==
    IF client_pk.len # 40 THEN "InvalidZapRequest"
    ELSE IF version # "1.0" THEN "ZapVersion"
    ELSE ""

\* ZapRequest::new: the error it returns, "" for Ok
ZapRequest_new(version, client_pk) ==
    IF version # "1.0" THEN "ZapVersion"
    ELSE IF client_pk.len # 40 THEN "InvalidZapRequest"
    ELSE ""

\* a variant of zap_reply that leaves out the user id frame
zap_reply_no_user_id(sequence, ok, metadata) ==
    <<<<"str", "1.0">>, <<"str", sequence>>>>
        \o (IF ok THEN <<<<"str", "200">>, <<"str", "OK">>>>
                  ELSE <<<<"str", "400">>, <<"str", "No access">>>>)
        \o (IF metadata # <<>> THEN metadata ELSE <<<<"str", "">>>>)

\* ZapRequest::zap_reply
zap_reply(sequence, ok, metadata) ==
    <<<<"str", "1.0">>, <<"str", sequence>>>>
        \o (IF ok THEN <<<<"str", "200">>, <<"str", "OK">>>>
                  ELSE <<<<"str", "400">>, <<"str", "No access">>>>)
        \o <<<<"str", "">>>>
        \o (IF metadata # <<>> THEN metadata ELSE <<<<"str", "">>>>)

\* a variant of authenticate that lets nobody in
authenticate_deny(c, sequence, mechanism, client_pk) == zap_reply(sequence, FALSE, <<>>)

\* a variant of authenticate that does not look at the mechanism
authenticate_any_mechanism(c, sequence, mechanism, client_pk) ==
    IF CertCache_get(c, client_pk) # {}
        THEN zap_reply(sequence, TRUE,
                       <<encode_meta(CHOOSE cert \in CertCache_get(c, client_pk) : TRUE)>>)
    ELSE zap_reply(sequence, FALSE, <<>>)

\* ZapRequest::authenticate: the reply it sends
authenticate(c, sequence, mechanism, client_pk) ==
    IF mechanism = "CURVE" /\ CertCache_get(c, client_pk) # {}
        THEN zap_reply(sequence, TRUE,
                       <<encode_meta(CHOOSE cert \in CertCache_get(c, client_pk) : TRUE)>>)
    ELSE zap_reply(sequence, FALSE, <<>>)

\* the zap branch of Worker::run on a request of seven frames: the error
\* that ends run ("" when the loop goes on) and the reply sent
Worker_zap(c, req) ==
    LET pk == z85_encode(req[7])
        e == IF pk.err # "" THEN pk.err ELSE ZapRequest_new(req[1][2], pk)
    IN  IF e # "" THEN [err |-> e, reply |-> <<>>]
        ELSE [err |-> "", reply |-> <<authenticate(c, req[2][2], req[6][2], pk.txt)>>]

\* a variant of the seed that trusts the handler's own certificate always
Seed_always(self) ==
    CertCache_new(<<Cert_from_zcert(SelfKey, <<"meta", ServerName, "host">>).cert>>)

\* the seed of ZapHandler::new
Seed(self) ==
    IF self THEN CertCache_new(<<Cert_from_zcert(SelfKey, <<"meta", ServerName, "host">>).cert>>)
    ELSE CertCache_new(<<>>)

ZapRequest(v, s, m, k, n) ==
    <<<<"str", v>>, <<"str", s>>, <<"str", "auth.intecture">>, <<"str", "127.0.0.1">>,
      <<"str", "">>, <<"str", m>>, <<"key", k, n>>>>

\* well-formed requests of either mechanism, and requests of a wrong
\* version or a key of a wrong length
ZapRequests ==
    {ZapRequest("1.0", "1", m, k, 32) : m \in {"CURVE", "NULL"}, k \in Keys}
        \cup {ZapRequest("1.0", "2", "CURVE", k, 32) : k \in {SelfKey, 1}}
        \cup {ZapRequest(v, "1", "CURVE", k, n) : v \in {"1.0", "2.0"}, k \in {SelfKey, 1},
                                                n \in {28, 30, 32}}

\* ------------------------------------------------------- the ZAP worker
\* the run loop returns: its sockets are closed
WorkerEnds(ends) ==
    /\ wrunning' = ~ends
    /\ wstate' = IF ends THEN "closed" ELSE wstate

\* the SUB socket's connection is up: the XPUB knows its subscription
WorkerConnect ==
    /\ wrunning
    /\ wstate = "init"
    /\ wstate' = "registered"
    /\ apiOut' = <<>> /\ pubOut' = <<>> /\ xpubOut' = <<>> /\ xsubOut' = <<>> /\ zapOut' = <<>>
    /\ last' = [op |-> "connect", err |-> ""]
    /\ UNCHANGED <<serverVars, feedQ, wtopic, wcache, wrunning, allow_self, wlog, lifeVars>>

\* the zap socket is readable
WorkerZap ==
    \E req \in ZapRequests :
        LET o == Worker_zap(wcache, req) IN
        /\ wrunning
        /\ zapOut' = o.reply
        /\ WorkerEnds(o.err # "")
        /\ feedQ' = IF o.err # "" THEN <<>> ELSE feedQ
        /\ apiOut' = <<>> /\ pubOut' = <<>> /\ xpubOut' = <<>> /\ xsubOut' = <<>>
        /\ last' = [op |-> "zap", err |-> o.err, req |-> req]
        /\ UNCHANGED <<serverVars, wtopic, wcache, allow_self, wlog, lifeVars>>

\* the keys of the certificates an update event adds or deletes
EventKeys(msg) ==
    IF msg[2] = <<"str", "ADD">>
        THEN {msg[i][2] : i \in {j \in 3..(Len(msg) - 1) : j % 2 = 1 /\ msg[j][1] = "pub"}}
    ELSE IF msg[2] = <<"str", "DEL">> /\ Len(msg) >= 3 /\ msg[3][1] = "pub" THEN {msg[3][2]}
    ELSE {}

\* the subscriber socket is readable
WorkerFeed ==
    /\ wrunning
    /\ feedQ # <<>>
    /\ LET r == CertCache_recv(wcache, Head(feedQ)) IN
        /\ wcache' = r.cache
        /\ wlog' = IF r.err # "" THEN wlog
                   ELSE [k \in Keys |-> IF k \in EventKeys(Head(feedQ))
                                           THEN Head(feedQ)[2][2] ELSE wlog[k]]
        /\ WorkerEnds(r.err # "")
        /\ feedQ' = IF r.err # "" THEN <<>> ELSE Tail(feedQ)
        /\ last' = [op |-> "feed", err |-> r.err]
    /\ apiOut' = <<>> /\ pubOut' = <<>> /\ xpubOut' = <<>> /\ xsubOut' = <<>> /\ zapOut' = <<>>
    /\ UNCHANGED <<serverVars, wtopic, allow_self, lifeVars>>

\* the comm pipe is readable
WorkerComm ==
    \E payload \in {THREAD_TERM, "ping"} :
        /\ wrunning
        /\ WorkerEnds(payload = THREAD_TERM)
        /\ feedQ' = IF payload = THREAD_TERM THEN <<>> ELSE feedQ
        /\ apiOut' = <<>> /\ pubOut' = <<>> /\ xpubOut' = <<>> /\ xsubOut' = <<>> /\ zapOut' = <<>>
        /\ last' = [op |-> "comm", err |-> ""]
        /\ UNCHANGED <<serverVars, wtopic, wcache, allow_self, wlog, lifeVars>>

\* the certificates of the events on the feed
FeedCert(k) == Cert_new(IF k = 1 THEN "luke" ELSE "r2d2", IF k = 1 THEN "User" ELSE "Host", k)

\* the message the XPUB of the server forwards when cert is created: the
\* event do_create publishes, passed on by ZapSubscriber::recv
EventOfCreate(cert) ==
    LET o == CHOOSE o \in CertApi_do_create(EmptyStore, [n \in {} |-> 0], cert.key,
                              <<<<"str", to_str(cert.cert_type)>>, <<"str", cert.name>>>>,
                              RouterId, TRUE) : TRUE
    IN  ZapSubscriber_recv(EmptyCache, o.pubs[1]).xpub[1]

\* the message the XPUB of the server forwards when cert is deleted
EventOfDelete(cert) ==
    LET o == CHOOSE o \in CertApi_do_delete([n \in {cert.name} |-> cert],
                              [n \in {cert.name} |-> cert.key], cert.key + 1,
                              <<<<"str", cert.name>>>>, RouterId) : TRUE
    IN  ZapSubscriber_recv(CacheInsert(EmptyCache, cert), o.pubs[1]).xpub[1]

\* what arrives on the feed: the events of creating and deleting the
\* certificates, the snapshots of a cache of two certificates, and a message
\* of an unknown action
FeedMsgs ==
    {EventOfCreate(FeedCert(k)) : k \in 1..MaxKeys}
        \cup {EventOfDelete(FeedCert(k)) : k \in 1..MaxKeys}
        \cup CertCache_send(CertCache_new(<<FeedCert(1), FeedCert(2)>>), "None")
        \cup {<<<<"str", "host">>, <<"str", "MOO">>, <<"pub", 1>>>>}

\* the XPUB of the auth server sends an event
FeedArrives ==
    \E msg \in FeedMsgs :
        /\ WorkerGets(wstate, wtopic, msg)
        /\ Len(feedQ) < MaxQueue
        /\ feedQ' = Append(feedQ, msg)
        /\ apiOut' = <<>> /\ pubOut' = <<>> /\ xpubOut' = <<>> /\ xsubOut' = <<>> /\ zapOut' = <<>>
        /\ last' = [op |-> "arrive", err |-> ""]
        /\ UNCHANGED <<serverVars, workerVars, lifeVars>>

\* --------------------------------------- zap_handler.rs: the control pipe
\* the test of Worker::run on a payload read from the control pipe
comm_ends(payload) == payload = THREAD_TERM

\* a step of the handle or of the pipe: the sockets carry nothing new
PipeStep(op) ==
    /\ apiOut' = <<>> /\ pubOut' = <<>> /\ xpubOut' = <<>> /\ xsubOut' = <<>> /\ zapOut' = <<>>
    /\ last' = [op |-> op, err |-> ""]
    /\ UNCHANGED <<serverVars, feedQ, workerVars, proc>>

\* something other than the sentinel is written to the pipe
CommSend ==
    /\ handler = "owned"
    /\ Len(comm) < MaxQueue
    /\ comm' = Append(comm, "ping")
    /\ handler' = handler
    /\ PipeStep("send")

\* Drop for ZapHandler, up to the join: the sentinel is sent with a blocking
\* send.  When the worker has returned and closed its end of the pipe, the
\* pipe has no peer: the send returns an error, which is ignored (what the
\* comment in drop expects), or it waits for a peer (what the transport
\* documents for a pair socket without a peer) and drop never reaches the join.
HandlerDrop ==
    /\ handler = "owned"
    /\ IF wrunning
           THEN comm' = Append(comm, THREAD_TERM) /\ handler' = "joining"
       ELSE comm' = comm /\ handler' \in {"joining", "blocked"}
    /\ PipeStep("drop")

\* the join of Drop returns once the worker thread has returned
HandlerJoin ==
    /\ handler = "joining"
    /\ ~wrunning
    /\ handler' = "joined"
    /\ UNCHANGED <<serverVars, feedQ, workerVars, proc, comm, apiOut, pubOut, xpubOut,
                   xsubOut, zapOut, last>>

\* the comm pipe is readable and the poller returns it: the subscriber,
\* added to the poller before it, has nothing to read
WorkerCommRead ==
    /\ wrunning
    /\ comm # <<>>
    /\ feedQ = <<>>
    /\ WorkerEnds(comm_ends(Head(comm)))
    /\ comm' = Tail(comm)
    /\ apiOut' = <<>> /\ pubOut' = <<>> /\ xpubOut' = <<>> /\ xsubOut' = <<>> /\ zapOut' = <<>>
    /\ last' = [op |-> "thread_comm", err |-> "", payload |-> Head(comm)]
    /\ UNCHANGED <<serverVars, feedQ, wtopic, wcache, allow_self, wlog, proc, handler>>

\* ------------------------------------------------- server.rs: main, start
\* what start finds on the machine: whether the configuration can be read,
\* the server certificate file, the certificate directory, and whether the
\* API port and the update port are free
ProcEnvs ==
    [conf : BOOLEAN, server_cert : {"good", "bad", "missing", "unwritable"},
     cert_path : {"dir", "file", "missing"}, api_port : BOOLEAN, update_port : BOOLEAN]

\* the process when main calls start: where the main thread is, where the
\* service thread is, the startup step that failed, and the exit code, {}
\* while the process runs
ProcNew(env) ==
    [env |-> env, main |-> "read_conf", thread |-> "none", failed |-> "", exit |-> {}]

\* a server whose start came through: main waits for a signal
ProcServing ==
    [env |-> [conf |-> TRUE, server_cert |-> "good", cert_path |-> "dir", api_port |-> TRUE,
              update_port |-> TRUE],
     main |-> "signal", thread |-> "service", failed |-> "", exit |-> {}]

\* start returns Err(e): main prints it and calls exit(1)
StartErr(e) == [proc EXCEPT !.main = "exited", !.failed = e, !.exit = {1}]

ProcStep(p) ==
    /\ proc.exit = {}
    /\ proc' = p
    /\ UNCHANGED <<serverVars, feedQ, workerVars, comm, handler, apiOut, pubOut, xpubOut,
                   xsubOut, zapOut, last>>

StartReadConf ==
    /\ proc.main = "read_conf"
    /\ ProcStep(IF proc.env.conf THEN [proc EXCEPT !.main = "server_cert"]
                ELSE StartErr("read_conf"))

\* the certificate is loaded when its file exists and created otherwise
StartServerCert ==
    /\ proc.main = "server_cert"
    /\ ProcStep(IF proc.env.server_cert \in {"good", "missing"}
                    THEN [proc EXCEPT !.main = "persistence"]
                ELSE StartErr("server_cert"))

\* PersistDisk::new
StartPersistence ==
    /\ proc.main = "persistence"
    /\ ProcStep(IF proc.env.cert_path = "dir" THEN [proc EXCEPT !.main = "api_sock"]
                ELSE IF proc.env.cert_path = "file" THEN StartErr("InvalidCertPath")
                ELSE StartErr("Io"))

\* the API socket is bound, the ZAP handler created (its Result is kept and
\* not looked at) and the service thread spawned; main waits for a signal
StartBindApi ==
    /\ proc.main = "api_sock"
    /\ ProcStep(IF proc.env.api_port
                    THEN [proc EXCEPT !.main = "signal", !.thread = "starting"]
                ELSE StartErr("api_port"))

\* the closure of the service thread up to service.start: zap_proxy binds
\* the update port and the closure unwraps the result
ThreadStart ==
    /\ proc.thread = "starting"
    /\ ProcStep(IF proc.env.update_port THEN [proc EXCEPT !.thread = "service"]
                ELSE [proc EXCEPT !.thread = "panicked", !.failed = "update_port"])

\* SIGINT or SIGTERM: signal.recv returns and main signals the service
SignalArrives ==
    /\ proc.main = "signal"
    /\ ProcStep([proc EXCEPT !.main = "join"])

\* the service loop stops on the signal of main
ThreadStop ==
    /\ proc.thread = "service"
    /\ proc.main = "join"
    /\ ProcStep([proc EXCEPT !.thread = "ended"])

\* thread.join().unwrap(): start returns Ok(()) and main returns, or the
\* unwrap panics on the panic of the thread
ThreadJoin ==
    /\ proc.main = "join"
    /\ proc.thread \in {"ended", "panicked"}
    /\ ProcStep([proc EXCEPT !.main = "exited",
                             !.exit = IF proc.thread = "ended" THEN {0} ELSE {101}])

\* ------------------------------------------------------ the specification
InitServer ==
    /\ files = EmptyStore
    /\ name_cache = [n \in {} |-> 0]
    /\ cert_cache = CertCache_new(<<>>)
    /\ nextKey = 1
    /\ pubQ = <<>>
    /\ subs = {}

InitWorker ==
    /\ feedQ = <<>>
    /\ wstate = "init"
    /\ wcache = Seed(allow_self)
    /\ wrunning = TRUE
    /\ wlog = [k \in Keys |-> ""]
    /\ comm = <<>>
    /\ handler = "owned"

InitOut ==
    /\ apiOut = <<>> /\ pubOut = <<>> /\ xpubOut = <<>> /\ xsubOut = <<>> /\ zapOut = <<>>
    /\ last = NoStep

\* the server with the ZAP handler it starts for itself (server.rs, start)
Init ==
    /\ InitServer
    /\ wtopic = ""
    /\ allow_self = TRUE
    /\ InitWorker
    /\ InitOut
    /\ proc = ProcServing

\* a client's ZAP handler, for each way of constructing it
InitClient ==
    /\ InitServer
    /\ wtopic \in {"", "host", "user"}
    /\ allow_self \in BOOLEAN
    /\ InitWorker
    /\ InitOut
    /\ proc = ProcServing

\* the server process when main calls start, on any machine
InitStart ==
    /\ InitServer
    /\ wtopic = ""
    /\ allow_self = TRUE
    /\ InitWorker
    /\ InitOut
    /\ proc \in {ProcNew(env) : env \in ProcEnvs}

\* the server: the service loop with its API and proxy endpoints
\* the service loop waits in its poll: the endpoint it ran last has returned
ServicePolls == last = NoStep

\* the endpoint the loop ran returns and the loop polls again; what the
\* endpoint sent has left the sockets
ServiceReturns ==
    /\ last # NoStep
    /\ apiOut' = <<>> /\ pubOut' = <<>> /\ xpubOut' = <<>> /\ xsubOut' = <<>> /\ zapOut' = <<>>
    /\ last' = NoStep
    /\ UNCHANGED <<serverVars, feedQ, workerVars, lifeVars>>

\* the service loop: it polls, runs the endpoint of one readable socket and
\* polls again
Next ==
    \/ (ServicePolls /\ ApiList)
    \/ (ServicePolls /\ ApiLookup)
    \/ (ServicePolls /\ ApiCreate)
    \/ (ServicePolls /\ ApiDelete)
    \/ (ServicePolls /\ ProxyPublisher)
    \/ (ServicePolls /\ ProxySubscriber)
    \/ ServiceReturns

Spec == Init /\ [][Next]_vars

\* the ZAP worker of a client, fed by the update feed of some auth server
NextWorker ==
    \/ WorkerConnect
    \/ FeedArrives
    \/ WorkerZap
    \/ WorkerFeed
    \/ WorkerComm

SpecWorker == InitClient /\ [][NextWorker]_vars

\* the ZAP handler and its worker up to the drop of the handler.  Once the
\* handler is dropped no request and no event arrives any more: the worker
\* reads what it was sent and is idle in the poll otherwise.
NextShutdown ==
    \/ (handler = "owned" /\ WorkerConnect)
    \/ (handler = "owned" /\ FeedArrives)
    \/ (handler = "owned" /\ WorkerZap)
    \/ WorkerFeed
    \/ CommSend
    \/ HandlerDrop
    \/ WorkerCommRead
    \/ HandlerJoin

\* the worker thread and the dropping thread both run
SpecShutdown ==
    /\ InitClient
    /\ [][NextShutdown]_vars
    /\ WF_vars(WorkerFeed)
    /\ WF_vars(WorkerCommRead)
    /\ WF_vars(HandlerJoin)

\* the server process from the call of start to its exit
NextStart ==
    \/ StartReadConf
    \/ StartServerCert
    \/ StartPersistence
    \/ StartBindApi
    \/ ThreadStart
    \/ SignalArrives
    \/ ThreadStop
    \/ ThreadJoin

SpecStart == InitStart /\ [][NextStart]_vars

\* the requests of a user that change the set of certificates
ClientCreate ==
    \E args \in {<<<<"str", "user">>, <<"str", "luke">>>>, <<<<"str", "host">>, <<"str", "r2d2">>>>} :
        \E o \in CertApi_create(files, name_cache, nextKey, AnyPeer, args, RouterId, TRUE) :
            Dispatch("cert::create", AnyPeer, args, o)

ClientDelete ==
    \E args \in {<<<<"str", "luke">>>>, <<<<"str", "r2d2">>>>} :
        \E o \in CertApi_delete(files, name_cache, nextKey, AnyPeer, args, RouterId) :
            Dispatch("cert::delete", AnyPeer, args, o)

\* another subscriber of the feed subscribes: the proxy replays the cache
OtherSubscribes ==
    \E t \in {"", "host", "user"} : ProxyPublisherStep(<<<<"raw", <<1>> \o Bytes(t)>>>>, FALSE)

\* a client's ZAP worker on the update feed of the server: the service loop
\* of the server and the worker thread of the client, one step at a time
NextClient ==
    \/ (ServicePolls /\ ClientCreate)
    \/ (ServicePolls /\ ClientDelete)
    \/ (ServicePolls /\ OtherSubscribes)
    \/ (ServicePolls /\ ProxyPublisherWorker)
    \/ (ServicePolls /\ ProxySubscriber)
    \/ (ServicePolls /\ WorkerConnect)
    \/ (ServicePolls /\ WorkerFeed)
    \/ ServiceReturns

SpecClient == InitClient /\ [][NextClient]_vars

\* the disk backend on its own: one process owns it and calls create, read,
\* delete and dump in any order
DiskStep(op, name, err, certs, fs, nc) ==
    /\ files' = fs
    /\ name_cache' = nc
    /\ last' = [op |-> op, err |-> err, name |-> name, certs |-> certs]
    /\ apiOut' = <<>> /\ pubOut' = <<>> /\ xpubOut' = <<>> /\ xsubOut' = <<>> /\ zapOut' = <<>>
    /\ UNCHANGED <<cert_cache, pubQ, subs, feedQ, workerVars, lifeVars>>

DiskCreate ==
    \E name \in Names, type \in {"User", "Host"}, disk_ok \in BOOLEAN :
        LET p == PersistDisk_create(files, name_cache, Cert_new(name, type, nextKey), disk_ok) IN
        /\ nextKey <= MaxKeys
        /\ nextKey' = nextKey + 1
        /\ DiskStep("create", name, p.err, {}, p.files, p.name_cache)

DiskRead ==
    \E name \in Names :
        LET r == PersistDisk_read(files, name_cache, name) IN
        /\ DiskStep("read", name, r.err, IF r.err = "" THEN {r.cert} ELSE {}, files, r.name_cache)
        /\ UNCHANGED nextKey

DiskDelete ==
    \E name \in Names :
        LET d == PersistDisk_delete(files, name_cache, name) IN
        /\ DiskStep("delete", name, d.err, {}, d.files, d.name_cache)
        /\ UNCHANGED nextKey

DiskDump ==
    /\ DiskStep("dump", "", "", PersistDisk_dump(files), files,
                PersistDisk_dump_names(files, name_cache))
    /\ UNCHANGED nextKey

\* the directory holds no certificate or one written by an earlier run
InitDisk ==
    /\ files \in {EmptyStore, [n \in {"luke"} |-> Cert_new("luke", "User", SelfKey)]}
    /\ name_cache = PersistDisk_new(files)
    /\ cert_cache = CertCache_new(<<>>)
    /\ nextKey = 1
    /\ pubQ = <<>>
    /\ subs = {}
    /\ wtopic = ""
    /\ allow_self = FALSE
    /\ InitWorker
    /\ InitOut
    /\ proc = ProcServing

NextDisk ==
    \/ DiskCreate
    \/ DiskRead
    \/ DiskDelete
    \/ DiskDump

SpecDisk == InitDisk /\ [][NextDisk]_vars

TypeOK ==
    /\ nextKey \in 1..(MaxKeys + 1)
    /\ Len(pubQ) <= MaxQueue
    /\ Len(feedQ) <= MaxQueue
    /\ DOMAIN cert_cache \subseteq Keys
    /\ DOMAIN wcache \subseteq Keys
    /\ wlog \in [Keys -> {"", "ADD", "DEL"}]
    /\ \A n \in DOMAIN files : files[n].name = n
    /\ Len(comm) <= MaxQueue + 1
    /\ handler \in {"owned", "joining", "blocked", "joined"}
    /\ proc.exit \in {{}, {0}, {1}, {101}}

\* ------------------------------------------------------------ properties
\* some frame of some message is a secret key
HasSecret(msgs) ==
    \E i \in 1..Len(msgs) : \E j \in 1..Len(msgs[i]) : msgs[i][j][1] = "sec"

\* every message is an event of the update feed: a topic, an action, then
\* public keys and encoded metas only
FeedOnly(msgs) ==
    \A i \in 1..Len(msgs) :
        /\ Len(msgs[i]) >= 3
        /\ msgs[i][1] \in {<<"str", "">>, <<"str", "host">>, <<"str", "user">>}
        /\ msgs[i][2] \in {<<"str", "ADD">>, <<"str", "DEL">>}
        /\ \A j \in 3..Len(msgs[i]) : msgs[i][j][1] \in {"pub", "meta"}

\* C1: every certificate created by a successful cert::create and not
\* deleted since (the files of the store) is resolved by cert::lookup of its
\* name to the public key of the create reply, and cert::list of its type
\* holds its name, whenever the request is dispatched, also as the very next
\* request after the create.
C1_CreatedIsLookedUp ==
    \A n \in DOMAIN files :
        /\ \A o \in CertApi_lookup(cert_cache, files, name_cache, nextKey, <<<<"str", n>>>>,
                                  RouterId) :
              o.err = "" /\ o.replies = <<<<RouterId, <<"str", "Ok">>, <<"pub", files[n].key>>>>>>
        /\ \A o \in CertApi_list(cert_cache, files, name_cache, nextKey,
                                <<<<"str", to_str(files[n].cert_type)>>>>, RouterId) :
              o.err = "" /\ \E i \in 3..Len(o.replies[1]) : o.replies[1][i] = <<"str", n>>

\* C2: a cert::create or cert::delete request of a peer whose type is host
\* fails with Forbidden and leaves the store, its name index, the server
\* cache and the publisher as they were: the only message of the step is
\* the error reply.
C2_ForbiddenChangesNothing ==
    [][(last'.op \in {"cert::create", "cert::delete"} /\ last'.peer = "host")
          => /\ last'.err = "Forbidden"
             /\ files' = files /\ name_cache' = name_cache /\ cert_cache' = cert_cache
             /\ nextKey' = nextKey /\ pubQ' = pubQ /\ pubOut' = <<>>
             /\ Len(apiOut') = 1
             /\ apiOut'[1][Len(apiOut'[1])] = <<"str", "Access to this endpoint is forbidden">>]_vars

\* a host asked to delete a certificate that exists and was refused
C2_Witness ==
    /\ last.op = "cert::delete" /\ last.peer = "host" /\ last.err = "Forbidden"
    /\ "luke" \in DOMAIN files
    /\ cert_cache # EmptyCache

\* the request of the last ZAP step is well-formed: version 1.0, a 32-byte key
WellFormedZap == last.op = "zap" /\ last.req[1][2] = "1.0" /\ last.req[7][3] = 32

\* C3: a well-formed CURVE request whose key the worker's cache holds is
\* answered 200/"OK" with the encoded meta of the cached certificate as the
\* credentials frame.
C3_CachedKeyAccepted ==
    (WellFormedZap /\ last.req[6][2] = "CURVE" /\ last.req[7][2] \in DOMAIN wcache)
        => zapOut = <<<<<<"str", "1.0">>, last.req[2], <<"str", "200">>, <<"str", "OK">>,
                       <<"str", "">>,
                       <<"meta", wcache[last.req[7][2]].name,
                         to_str(wcache[last.req[7][2]].cert_type)>>>>>>

\* a certificate learnt from the feed was presented and accepted
C3_Witness ==
    /\ WellFormedZap /\ last.req[6][2] = "CURVE"
    /\ last.req[7][2] \in DOMAIN wcache /\ last.req[7][2] # SelfKey
    /\ zapOut # <<>> /\ zapOut[1][3] = <<"str", "200">>

\* C4: a well-formed request is answered 200/"OK" only when its mechanism is
\* CURVE and the cache holds its key; every other well-formed request is
\* answered 400/"No access" with an empty credentials frame.
C4_OnlyCachedCurveAccepted ==
    WellFormedZap
        => /\ Len(zapOut) = 1
           /\ zapOut[1][3] = <<"str", "200">>
                 => (last.req[6][2] = "CURVE" /\ last.req[7][2] \in DOMAIN wcache)
           /\ ~(last.req[6][2] = "CURVE" /\ last.req[7][2] \in DOMAIN wcache)
                 => zapOut[1] = <<<<"str", "1.0">>, last.req[2], <<"str", "400">>,
                                  <<"str", "No access">>, <<"str", "">>, <<"str", "">>>>

\* a cached key was presented with another mechanism and refused
C4_Witness ==
    /\ WellFormedZap /\ last.req[6][2] = "NULL" /\ last.req[7][2] \in DOMAIN wcache
    /\ zapOut[1][3] = <<"str", "400">>

\* C5: no secret key is sent on the internal publisher or on the XPUB, whose
\* messages hold a topic, an action, public keys and encoded metas only; a
\* secret key is sent on the API socket only, in the reply of a successful
\* cert::create, and it is the key of the certificate created.
C5_NoSecretOnFeed ==
    /\ FeedOnly(pubOut) /\ FeedOnly(xpubOut) /\ FeedOnly(pubQ) /\ FeedOnly(feedQ)
    /\ ~HasSecret(xsubOut)
    /\ HasSecret(apiOut)
          => /\ last.op = "cert::create" /\ last.err = ""
             /\ apiOut[1][4] = <<"sec", nextKey - 1>>
             /\ \A j \in 1..Len(apiOut[1]) : apiOut[1][j][1] = "sec" => j = 4

\* a certificate was created: its event is on the publisher, its secret key
\* in the reply
C5_Witness ==
    /\ last.op = "cert::create" /\ last.err = ""
    /\ HasSecret(apiOut) /\ pubOut # <<>> /\ pubQ # <<>>

\* the last step handled a subscribe frame for the topic text
SubscribedTo(topic) ==
    last.op = "subscription" /\ last.msg[1] = <<"raw", <<1>> \o Bytes(topic)>>

\* the keys of the certificates of the cache whose type matches the topic
Matching(c, topic) == {k \in DOMAIN c : topic = "" \/ to_str(c[k].cert_type) = topic}

\* msg is a snapshot for the topic holding each of the certificates once
IsSnapshot(msg, c, keys, topic) ==
    /\ Len(msg) = 2 + 2 * Cardinality(keys)
    /\ msg[1] = <<"str", topic>>
    /\ msg[2] = <<"str", "ADD">>
    /\ {<<msg[2 * i + 1], msg[2 * i + 2]>> : i \in 1..Cardinality(keys)}
           = {<<<<"pub", k>>, <<"meta", c[k].name, to_str(c[k].cert_type)>>>> : k \in keys}

\* C6 as stated: a subscribe event for topic T ("host", "user" or empty),
\* handled while the server cache is not empty, sends one snapshot on the
\* XPUB, holding exactly the cached certificates of type T.
C6_SnapshotWhenCacheNotEmpty ==
    \A topic \in {"", "host", "user"} :
        (SubscribedTo(topic) /\ cert_cache # EmptyCache)
            => /\ Len(xpubOut) = 1
               /\ IsSnapshot(xpubOut[1], cert_cache, Matching(cert_cache, topic), topic)

\* C6 amended: a subscribe event for topic T, handled while the server cache
\* holds a certificate whose type matches T, sends one snapshot on the XPUB,
\* holding exactly the cached certificates of type T, each once; when no
\* cached certificate matches T nothing is sent on the XPUB.
C6_SnapshotWhenTypeCached ==
    \A topic \in {"", "host", "user"} :
        SubscribedTo(topic)
            => IF Matching(cert_cache, topic) = {} THEN xpubOut = <<>>
               ELSE /\ Len(xpubOut) = 1
                    /\ IsSnapshot(xpubOut[1], cert_cache, Matching(cert_cache, topic), topic)

\* a subscription to "host" was answered from a cache holding a host and a
\* user
C6_Witness ==
    /\ SubscribedTo("host")
    /\ Cardinality(Matching(cert_cache, "host")) = 1
    /\ Cardinality(Matching(cert_cache, "user")) = 1
    /\ Len(xpubOut) = 1

\* the last step handled a frame whose first byte is the unsubscribe code
Unsubscribed ==
    last.op = "subscription" /\ last.msg[1][2] # <<>> /\ last.msg[1][2][1] = 0

\* C7: a subscription frame whose first byte is 0, whatever the topic bytes
\* after it, makes the proxy send nothing on the XPUB and forward the
\* message as received on the XSUB.
C7_UnsubscribeForwardedOnly ==
    Unsubscribed => (last.err = "" /\ xpubOut = <<>> /\ xsubOut = <<last.msg>>)

\* an unsubscribe frame whose topic is not text was handled while the cache
\* held certificates
C7_Witness ==
    /\ Unsubscribed /\ last.msg[1][2] = <<0, 255>>
    /\ cert_cache # EmptyCache
    /\ xsubOut = <<<<<<"raw", <<0, 255>>>>>>>>

C9_SnapshotRoundTrip ==
    \A topic \in {"None", "Host", "User"} :
        \A m \in CertCache_send(cert_cache, topic) :
            CertCache_recv(EmptyCache, m)
                = [cache |-> [k \in {j \in DOMAIN cert_cache :
                                        topic = "None" \/ cert_cache[j].cert_type = topic}
                                 |-> cert_cache[k]],
                   err |-> ""]

\* a snapshot of a cache of two types was sent for the topic "user"
C9_Witness ==
    /\ SubscribedTo("user") /\ xpubOut # <<>>
    /\ \E j, k \in DOMAIN cert_cache :
          cert_cache[j].cert_type = "Host" /\ cert_cache[k].cert_type = "User"
    /\ DOMAIN CertCache_recv(EmptyCache, xpubOut[1]).cache
           = {k \in DOMAIN cert_cache : cert_cache[k].cert_type = "User"}

\* C10 as stated: every reply on the API socket has the router identity
\* first and "Ok" or "Err" second, and after "Err" the description third.
C10_StatusIsSecondFrame ==
    \A i \in 1..Len(apiOut) :
        /\ apiOut[i][1] = RouterId
        /\ apiOut[i][2] \in {<<"str", "Ok">>, <<"str", "Err">>}
        /\ apiOut[i][2] = <<"str", "Err">> => apiOut[i][3] = <<"str", description(last.err)>>

\* C10 amended: every reply on the API socket has the router identity
\* first; the reply of a handler that succeeded has "Ok" second; the reply
\* for a handler that failed has an empty frame second, "Err" third and the
\* description of the error fourth, and is the only message of the step.
C10_ErrAfterEmptyFrame ==
    /\ \A i \in 1..Len(apiOut) : apiOut[i][1] = RouterId
    /\ (last.op \in {"cert::list", "cert::lookup", "cert::create", "cert::delete"}
            /\ last.err = "")
          => (Len(apiOut) = 1 /\ apiOut[1][2] = <<"str", "Ok">>)
    /\ (last.op \in {"cert::list", "cert::lookup", "cert::create", "cert::delete"}
            /\ last.err # "")
          => apiOut = <<<<RouterId, <<"str", "">>, <<"str", "Err">>,
                          <<"str", description(last.err)>>>>>>

\* a lookup of an unknown name was answered with the error reply
C10_Witness ==
    /\ last.op = "cert::lookup"
    /\ apiOut = <<<<RouterId, <<"str", "">>, <<"str", "Err">>, <<"str", "Invalid certificate">>>>>>

\* C11: an error raised while the worker handles a ZAP request or an update
\* event does not end the worker loop: after the step the loop still runs.
C11_WorkerSurvivesErrors ==
    (last.op \in {"zap", "feed"} /\ last.err # "") => wrunning

\* C13 as stated: a request whose version frame is not "1.0" fails with
\* ZapVersion, a request of version "1.0" whose key encodes to a text of
\* another length than 40 fails with InvalidZapRequest, and neither is
\* answered 200/"OK".
C13_VersionThenKey ==
    last.op = "zap"
        => /\ last.req[1][2] # "1.0" => (last.err = "ZapVersion" /\ zapOut = <<>>)
           /\ (last.req[1][2] = "1.0" /\ last.req[7][3] % 4 = 0
                   /\ (last.req[7][3] * 5) \div 4 # 40)
                 => (last.err = "InvalidZapRequest" /\ zapOut = <<>>)

\* C13 amended: a request whose key frame has a length that is no multiple
\* of four fails with ZmqEncode whatever its version; of the others, one
\* whose version frame is not "1.0" fails with ZapVersion (checked before
\* the length of the key text) and one of version "1.0" whose key encodes to
\* a text of another length than 40 fails with InvalidZapRequest; none of
\* them is answered.
C13_EncodeThenVersionThenKey ==
    last.op = "zap"
        => /\ last.req[7][3] % 4 # 0 => (last.err = "ZmqEncode" /\ zapOut = <<>>)
           /\ (last.req[7][3] % 4 = 0 /\ last.req[1][2] # "1.0")
                 => (last.err = "ZapVersion" /\ zapOut = <<>>)
           /\ (last.req[7][3] % 4 = 0 /\ last.req[1][2] = "1.0"
                   /\ (last.req[7][3] * 5) \div 4 # 40)
                 => (last.err = "InvalidZapRequest" /\ zapOut = <<>>)

\* a request of a wrong version and a short key, for a cached key, failed
\* on its version
C13_Witness ==
    /\ last.op = "zap" /\ last.req[1][2] = "2.0" /\ last.req[7][3] = 28
    /\ last.req[7][2] \in DOMAIN wcache
    /\ last.err = "ZapVersion"

\* C14: every ZAP reply has six frames: "1.0", the sequence frame of the
\* request it answers, the status code and text, which are "200" and "OK"
\* or "400" and "No access", an empty user id, and a metadata frame that is
\* the encoded meta of the certificate on 200 and empty on 400.
C14_SixFrameReply ==
    \A i \in 1..Len(zapOut) :
        /\ last.op = "zap"
        /\ Len(zapOut[i]) = 6
        /\ zapOut[i][1] = <<"str", "1.0">>
        /\ zapOut[i][2] = last.req[2]
        /\ <<zapOut[i][3], zapOut[i][4]>> \in {<<<<"str", "200">>, <<"str", "OK">>>>,
                                              <<<<"str", "400">>, <<"str", "No access">>>>}
        /\ zapOut[i][5] = <<"str", "">>
        /\ zapOut[i][6] = IF zapOut[i][3] = <<"str", "200">>
                             THEN <<"meta", wcache[last.req[7][2]].name,
                                    to_str(wcache[last.req[7][2]].cert_type)>>
                             ELSE <<"str", "">>

\* a request of sequence "2" was answered 200 with the meta of a user
C14_Witness ==
    /\ Len(zapOut) = 1
    /\ zapOut[1][2] = <<"str", "2">>
    /\ zapOut[1][3] = <<"str", "200">>
    /\ zapOut[1][6] = <<"meta", "luke", "user">>

\* the worker has applied no update event
NoEventYet == \A k \in Keys : wlog[k] = ""

\* the reply of the last ZAP step has the status code
ZapStatus(code) == Len(zapOut) = 1 /\ zapOut[1][3] = <<"str", code>>

\* C15: a handler constructed with allow_self answers a CURVE request for
\* its own public key with 200/"OK" before it has applied any update event;
\* one constructed without starts with an empty cache and answers every
\* request with 400 as long as no ADD event for the key of the request was
\* applied.
C15_SelfTrustSeed ==
    /\ (allow_self /\ NoEventYet /\ WellFormedZap /\ last.req[6][2] = "CURVE"
            /\ last.req[7][2] = SelfKey)
          => (ZapStatus("200") /\ zapOut[1][6] = <<"meta", ServerName, "host">>)
    /\ (~allow_self /\ NoEventYet) => wcache = EmptyCache
    /\ (~allow_self /\ WellFormedZap /\ wlog[last.req[7][2]] = "") => ZapStatus("400")

\* a handler that does not trust itself refused its own key after it had
\* applied an ADD event for another key
C15_Witness ==
    /\ ~allow_self /\ WellFormedZap /\ last.req[6][2] = "CURVE" /\ last.req[7][2] = SelfKey
    /\ wlog[1] = "ADD"
    /\ ZapStatus("400")

C17_CreatePublishesThenReplies ==
    [][(last'.op = "cert::create" /\ last'.err = "") =>
            \E n \in DOMAIN files' \ DOMAIN files :
                LET cert == files'[n]
                    meta == <<"meta", n, to_str(cert.cert_type)>>
                IN  /\ DOMAIN files' = DOMAIN files \union {n}
                    /\ \A m \in DOMAIN files : files'[m] = files[m] /\ files[m].key # cert.key
                    /\ cert.name = n
                    /\ cert.key = nextKey
                    /\ nextKey' = nextKey + 1
                    /\ pubOut' = <<<<<<"str", to_str(cert.cert_type)>>, <<"str", "ADD">>,
                                     <<"pub", cert.key>>, meta>>>>
                    /\ apiOut' = <<<<RouterId, <<"str", "Ok">>, <<"pub", cert.key>>,
                                     <<"sec", cert.key>>, meta>>>>
                    /\ last'.order = <<"publisher", "api">>
                    /\ \A args \in CreateArgs :
                           \A o \in CertApi_create(files, name_cache, nextKey, AnyPeer,
                                                   args, RouterId, TRUE) :
                               o.err = "" =>
                                   /\ args[2][2] \in DOMAIN o.files
                                   /\ o.files[args[2][2]].cert_type = from_str(args[1][2])
                                   /\ DOMAIN o.files = DOMAIN files \union {args[2][2]}]_vars

C17_Witness ==
    /\ last.op = "cert::create" /\ last.err = ""
    /\ last.order = <<"publisher", "api">>
    /\ Len(pubOut) = 1 /\ Len(apiOut) = 1 /\ Len(apiOut[1]) = 5
    /\ nextKey = 3
    /\ Cardinality(DOMAIN files) = 2

\* C18: the API itself updates the server's cache: when the Ok reply of a
\* cert::create is sent the cache holds the new certificate, and when the Ok
\* reply of a cert::delete is sent the cache no longer holds the deleted one.
C18_ApiUpdatesCache ==
    /\ (last.op = "cert::create" /\ last.err = "") =>
           \E k \in DOMAIN cert_cache : public_txt(cert_cache[k]) = apiOut[1][3]
    /\ (last.op = "cert::delete" /\ last.err = "") =>
           \A k \in DOMAIN cert_cache : public_txt(cert_cache[k]) # pubOut[1][3]

\* C19: a cert::delete of name N that succeeds removes N from the store and
\* nothing else, publishes exactly one event [type, "DEL", public key] with
\* the type and the public key of the certificate stored under N, and replies
\* [router id, "Ok"] without a payload; afterwards cert::create with the name
\* N succeeds.
C19_DeleteThenCreateAgain ==
    [][(last'.op = "cert::delete" /\ last'.err = "") =>
          \E N \in DOMAIN files \ DOMAIN files' :
              /\ DOMAIN files' = DOMAIN files \ {N}
              /\ \A m \in DOMAIN files' : files'[m] = files[m]
              /\ pubOut' = <<<<<<"str", to_str(files[N].cert_type)>>, <<"str", "DEL">>,
                               <<"pub", files[N].key>>>>>>
              /\ apiOut' = <<<<RouterId, <<"str", "Ok">>>>>>
              /\ last'.order = <<"publisher", "api">>
              /\ \A t \in {"user", "host"} :
                     \A o \in CertApi_create(files', name_cache', nextKey', AnyPeer,
                                             <<<<"str", t>>, <<"str", N>>>>, RouterId, TRUE) :
                         /\ o.err = ""
                         /\ N \in DOMAIN o.files
                         /\ o.files[N].key = nextKey']_vars

\* the only certificate of the store was deleted and the name is free again
C19_Witness ==
    /\ last.op = "cert::delete" /\ last.err = ""
    /\ files = EmptyStore
    /\ DOMAIN name_cache = {}
    /\ Len(pubOut) = 1 /\ pubOut[1][2] = <<"str", "DEL">>
    /\ apiOut = <<<<RouterId, <<"str", "Ok">>>>>>

\* C20: cert::lookup and cert::delete of a name that is not in the store both
\* fail with InvalidCert, so that the reply is ["Err", "Invalid certificate"];
\* the store and the cache are unchanged and nothing is published.
C20_UnknownNameIsInvalidCert ==
    \A n \in Names \ DOMAIN files :
        /\ \A o \in CertApi_lookup(cert_cache, files, name_cache, nextKey,
                                    <<<<"str", n>>>>, RouterId) :
               /\ o.err = "InvalidCert"
               /\ o.sent = <<>>
               /\ o.files = files
        /\ \A o \in CertApi_delete(files, name_cache, nextKey, AnyPeer,
                                    <<<<"str", n>>>>, RouterId) :
               /\ o.err = "InvalidCert"
               /\ error_handler(RouterId, o.err)
                      = <<<<RouterId, <<"str", "">>, <<"str", "Err">>,
                            <<"str", "Invalid certificate">>>>>>
               /\ o.sent = <<>>
               /\ o.files = files

\* C21: cert::create with a name that exists in the store fails with
\* CertNameCollision: the store and the cache are left as they were, nothing
\* is published and the only reply is the Err reply; no create step changes
\* the key of a certificate the store holds already.
C21_NameCollisionKeepsCert ==
    [][/\ (last'.op = "cert::create" /\ last'.err = "CertNameCollision") =>
            /\ files' = files /\ name_cache' = name_cache /\ cert_cache' = cert_cache
            /\ pubOut' = <<>> /\ pubQ' = pubQ
            /\ apiOut' = <<<<RouterId, <<"str", "">>, <<"str", "Err">>,
                             <<"str", "Certificate name already exists">>>>>>
            /\ \A n \in DOMAIN files, t \in {"user", "host"}, ok \in BOOLEAN :
                   \A o \in CertApi_create(files, name_cache, nextKey, AnyPeer,
                                           <<<<"str", t>>, <<"str", n>>>>, RouterId, ok) :
                       o.err = "CertNameCollision" /\ o.sent = <<>> /\ o.files = files
       /\ (last'.op = "cert::create") =>
            /\ cert_cache' = cert_cache
            /\ \A m \in DOMAIN files : m \in DOMAIN files' /\ files'[m] = files[m]]_vars

C21_Witness ==
    /\ last.op = "cert::create" /\ last.err = "CertNameCollision"
    /\ "luke" \in DOMAIN files /\ files["luke"].key = 1
    /\ pubOut = <<>>
    /\ Len(apiOut) = 1 /\ apiOut[1][3] = <<"str", "Err">>

\* type tokens that are neither "host" nor "user"
UnknownTypeToks == {"moo", "", "h", "Host", "USER", "users", "runtime"}

\* C22: cert::list with a type token other than "host" or "user" fails with
\* InvalidCertMeta and the peer gets the Err reply only: no Ok reply and no
\* name frame is sent for the request.
C22_ListUnknownTypeErrOnly ==
    /\ (last.op = "cert::list" /\ last.err = "InvalidCertMeta") =>
           /\ apiOut = <<<<RouterId, <<"str", "">>, <<"str", "Err">>,
                           <<"str", "Invalid certificate metadata">>>>>>
           /\ pubOut = <<>>
    /\ \A t \in UnknownTypeToks :
           \A o \in CertApi_list(cert_cache, files, name_cache, nextKey, <<<<"str", t>>>>,
                                 RouterId) :
               o.err = "InvalidCertMeta" /\ o.sent = <<>>

\* the request is refused while the cache holds a certificate to list
C22_Witness ==
    /\ last.op = "cert::list" /\ last.err = "InvalidCertMeta"
    /\ cert_cache # EmptyCache
    /\ Len(apiOut) = 1 /\ apiOut[1][3] = <<"str", "Err">>

\* the public keys of the messages msgs
PubKeysOf(msgs) ==
    UNION {{msgs[i][j][2] : j \in {f \in 1..Len(msgs[i]) : msgs[i][f][1] = "pub"}} :
               i \in 1..Len(msgs)}

\* C23: the ADD event of a created certificate is sent on the XPUB before any
\* snapshot that holds the certificate.  The cache is empty when the server
\* starts on an empty store; a certificate enters the cache only in the step
\* that forwards its ADD event on the XPUB; and a snapshot holds certificates
\* of the cache only.
C23_AddBeforeSnapshot ==
    /\ cert_cache = EmptyCache
    /\ [][/\ \A k \in DOMAIN cert_cache' :
                (k \notin DOMAIN cert_cache \/ cert_cache'[k] # cert_cache[k]) =>
                    /\ last'.op = "event" /\ last'.err = ""
                    /\ xpubOut' = <<<<<<"str", to_str(cert_cache'[k].cert_type)>>,
                                      <<"str", "ADD">>, <<"pub", k>>,
                                      encode_meta(cert_cache'[k])>>>>
          /\ (last'.op = "subscription") =>
                /\ cert_cache' = cert_cache
                /\ PubKeysOf(xpubOut') \subseteq DOMAIN cert_cache]_vars

\* a snapshot holds the certificate created last
C23_Witness ==
    /\ last.op = "subscription" /\ last.err = ""
    /\ Len(xpubOut) = 1
    /\ nextKey = 3 /\ 2 \in PubKeysOf(xpubOut)
    /\ \E n \in DOMAIN files : files[n].key = 2

\* the last step handled a frame whose first byte is the subscribe code
SubscribeStep ==
    last.op = "subscription" /\ last.msg[1][2] # <<>> /\ last.msg[1][2][1] = 1

\* the topic bytes of the frame the last step handled
LastTopic == Tail(last.msg[1][2])

\* the filter of a subscribe frame selects the snapshot: the whole cache for
\* the empty topic, the certificates of the type for "host" and "user"
FilterSelects ==
    \A topic \in {"", "host", "user"} :
        (SubscribeStep /\ LastTopic = Bytes(topic)) =>
            /\ last.err = ""
            /\ IF Matching(cert_cache, topic) = {} THEN xpubOut = <<>>
               ELSE /\ Len(xpubOut) = 1
                    /\ IsSnapshot(xpubOut[1], cert_cache, Matching(cert_cache, topic), topic)

\* C26 as stated: the empty topic gives the full cache, "host" or "user" the
\* cache filtered by that type, and a subscribe frame of any other topic is
\* rejected with InvalidCertMeta and no snapshot is sent.
C26_OtherTopicInvalidCertMeta ==
    /\ FilterSelects
    /\ (SubscribeStep /\ LastTopic \notin {Bytes(t) : t \in {"", "host", "user"}}) =>
           (last.err = "InvalidCertMeta" /\ xpubOut = <<>>)

\* C26 amended: as stated for the empty topic, "host" and "user"; a subscribe
\* frame of any other topic is rejected and neither a snapshot nor the frame
\* is sent, with InvalidCertMeta when the topic bytes are UTF-8 (a proper
\* prefix such as "h" included) and with the UTF-8 decoding error when they
\* are not.
C26_OtherTopicRejected ==
    /\ FilterSelects
    /\ (SubscribeStep /\ LastTopic \notin {Bytes(t) : t \in {"", "host", "user"}}) =>
           /\ last.err = IF IsUtf8(LastTopic) THEN "InvalidCertMeta" ELSE "Utf8"
           /\ xpubOut = <<>> /\ xsubOut = <<>>
    /\ \A t \in {"h", "moo", "luke"} :
           ZapPublisher_recv(cert_cache, <<<<"raw", <<1>> \o Bytes(t)>>>>)
               = {[err |-> "InvalidCertMeta", xpub |-> <<>>, xsub |-> <<>>]}

\* a subscribe frame for the prefix "h" was rejected while the cache held a
\* host certificate
C26_Witness ==
    /\ SubscribeStep /\ LastTopic = Bytes("h")
    /\ last.err = "InvalidCertMeta"
    /\ Matching(cert_cache, "host") # {}
    /\ xpubOut = <<>>

\* C27 as stated: after handling any subscription frame read from the XPUB,
\* subscribe or unsubscribe, snapshot sent or not, the proxy has forwarded
\* the frame and the remaining frames of its message, unchanged and in
\* order, on the XSUB.
C27_EveryFrameForwarded ==
    last.op = "subscription" => xsubOut = <<last.msg>>

\* C27 amended: the frame and the remaining frames of its message are
\* forwarded on the XSUB, unchanged and in order, whenever the handler
\* returns Ok: for every frame that is not a subscribe frame and for a
\* subscribe frame of the empty topic, "host" or "user", snapshot sent or
\* not.  A subscribe frame of another topic is rejected before the forward:
\* nothing is sent on the XSUB.
C27_AcceptedFrameForwarded ==
    last.op = "subscription" =>
        /\ last.err = "" <=> (~SubscribeStep \/ LastTopic \in {Bytes(t) : t \in {"", "host", "user"}})
        /\ last.err = "" => xsubOut = <<last.msg>>
        /\ last.err # "" => xsubOut = <<>>

\* a subscribe message of two frames was answered with a snapshot and
\* forwarded whole
C27_Witness ==
    /\ SubscribeStep /\ Len(last.msg) = 2
    /\ last.err = ""
    /\ Len(xpubOut) = 1
    /\ xsubOut = <<last.msg>>

\* update messages the claim lists as not interpretable: a single frame, an
\* unknown action, a DEL without a key, an ADD whose public key has no meta
\* frame after it, an ADD whose meta lacks the name, lacks the type or has a
\* type that is not recognised
UninterpretableMsgs ==
    {<<<<"str", "host">>>>,
     <<<<"str", "host">>, <<"str", "MOO">>, <<"pub", 1>>>>,
     <<<<"str", "host">>, <<"str", "DEL">>>>,
     <<<<"str", "host">>, <<"str", "ADD">>, <<"pub", 1>>>>,
     <<<<"str", "host">>, <<"str", "ADD">>, <<"pub", 1>>, <<"meta", NoMeta, "host">>>>,
     <<<<"str", "host">>, <<"str", "ADD">>, <<"pub", 1>>, <<"meta", "r2d2", NoMeta>>>>,
     <<<<"str", "host">>, <<"str", "ADD">>, <<"pub", 1>>, <<"meta", "r2d2", "moo">>>>}

\* C28: CertCache::recv applies an ADD by inserting or overwriting every
\* (public key, meta) pair of the message and a DEL by removing the named
\* key, and fails with InvalidCertFeed on every message it cannot interpret.
C28_UninterpretableIsInvalidCertFeed ==
    /\ \A k \in 1..MaxKeys :
           /\ CertCache_recv(wcache, EventOfCreate(FeedCert(k)))
                  = [cache |-> CacheInsert(wcache, FeedCert(k)), err |-> ""]
           /\ CertCache_recv(wcache, EventOfDelete(FeedCert(k)))
                  = [cache |-> CacheRemove(wcache, k), err |-> ""]
    /\ \A msg \in UninterpretableMsgs :
           CertCache_recv(wcache, msg) = [cache |-> wcache, err |-> "InvalidCertFeed"]

\* the text of the first frame CertCache::send writes for a filter
FilterText(topic) == IF topic = "None" THEN "" ELSE to_str(topic)

\* C29: CertCache::send emits at most one message per call: nothing when no
\* cached certificate matches the filter, also when the cache holds
\* certificates of the other type only; otherwise one message whose first
\* frame is the topic, whose second frame is "ADD", followed by one (public
\* key, meta) pair for each matching certificate.
C29_SendOneMessageOrNone ==
    /\ \A topic \in {"None", "Host", "User"} :
           LET keys == Matching(cert_cache, FilterText(topic))
               out == CertCache_send(cert_cache, topic)
           IN  /\ keys = {} <=> out = {}
               /\ \A m \in out : IsSnapshot(m, cert_cache, keys, FilterText(topic))
    /\ last.op = "subscription" =>
           /\ Len(xpubOut) <= 1
           /\ \A topic \in {"", "host", "user"} :
                  (SubscribeStep /\ LastTopic = Bytes(topic)) =>
                      (xpubOut = <<>> <=> Matching(cert_cache, topic) = {})

\* a subscribe to "host" got nothing from a cache that holds a user only
C29_Witness ==
    /\ SubscribeStep /\ LastTopic = Bytes("host")
    /\ cert_cache # EmptyCache
    /\ Matching(cert_cache, "host") = {}
    /\ xpubOut = <<>> /\ last.err = ""

\* C30: names are unique: in every reachable state no two certificates of
\* the store share a name and no two certificates of the server's cache
\* share a name, whatever the sequence of create and delete requests.
C30_NamesUnique ==
    /\ \A n, m \in DOMAIN files : files[n].name = files[m].name => n = m
    /\ \A j, k \in DOMAIN cert_cache : cert_cache[j].name = cert_cache[k].name => j = k

\* C24: any startup error of the server (configuration, server certificate,
\* certificate path, a bind of the API port or of the update port) ends the
\* process with exit code 1, and a run that started and then receives a
\* signal stops the service loop, joins it and ends with exit code 0.
C24_StartupErrorExitsOne ==
    /\ proc.failed # "" => proc.exit = {1}
    /\ (proc.main = "exited" /\ proc.failed = "") => (proc.exit = {0} /\ proc.thread = "ended")

\* C25: the shutdown of the ZAP handler always completes: once the handle is
\* dropped the worker is joined, whether it was idle in the poll or had
\* returned on an earlier error; a payload on the control pipe other than the
\* sentinel does not end the loop.
C25_ShutdownCompletes ==
    /\ [][(last'.op = "thread_comm" /\ last'.payload # THREAD_TERM) => wrunning']_vars
    /\ (handler # "owned") ~> (handler = "joined")

\* the event at the head of the queue to the XSUB is an ADD of one
\* certificate, or a DEL
HeadIsAdd ==
    /\ Len(Head(pubQ)) = 4 /\ Head(pubQ)[2] = <<"str", "ADD">>
    /\ Head(pubQ)[3][1] = "pub" /\ Head(pubQ)[4][1] = "meta"
HeadIsDel ==
    Len(Head(pubQ)) = 3 /\ Head(pubQ)[2] = <<"str", "DEL">> /\ Head(pubQ)[3][1] = "pub"

\* C31: an update event read from the XSUB is applied to the server cache
\* and forwarded on the XPUB with the same frames in the same order, in the
\* one step of the service loop that reads it: an ADD leaves the certificate
\* of its meta under its public key, a DEL leaves no certificate under its
\* public key, the other entries stay, and nothing else is sent.
C31_EventAppliedThenForwarded ==
    [][(last'.op = "event") =>
          /\ pubQ # <<>> /\ pubQ' = Tail(pubQ)
          /\ last'.err = ""
          /\ xpubOut' = <<Head(pubQ)>>
          /\ apiOut' = <<>> /\ pubOut' = <<>> /\ xsubOut' = <<>>
          /\ HeadIsAdd \/ HeadIsDel
          /\ HeadIsAdd =>
                LET k == Head(pubQ)[3][2] IN
                /\ DOMAIN cert_cache' = DOMAIN cert_cache \cup {k}
                /\ cert_cache'[k] = [name |-> Head(pubQ)[4][2],
                                     cert_type |-> from_str(Head(pubQ)[4][3]), key |-> k]
                /\ \A j \in DOMAIN cert_cache \ {k} : cert_cache'[j] = cert_cache[j]
          /\ HeadIsDel =>
                LET k == Head(pubQ)[3][2] IN
                /\ DOMAIN cert_cache' = DOMAIN cert_cache \ {k}
                /\ \A j \in DOMAIN cert_cache' : cert_cache'[j] = cert_cache[j]]_vars

\* a DEL event was read: the certificate left the cache and the event went
\* out on the XPUB
C31_Witness ==
    /\ last.op = "event" /\ last.err = ""
    /\ Len(xpubOut) = 1 /\ xpubOut[1][2] = <<"str", "DEL">>
    /\ xpubOut[1][3][2] \notin DOMAIN cert_cache
    /\ cert_cache # EmptyCache

\* C32: every ADD or DEL event the API publishes on its publisher is
\* delivered to the proxy, whatever the external subscribers are subscribed
\* to at that time, also when nobody has subscribed yet or everybody
\* unsubscribed: the published message is then in flight to the XSUB, from
\* where the proxy applies it to the server cache.
C32_PublishedEventReachesProxy ==
    [][(last'.op \in {"cert::create", "cert::delete"} /\ pubOut' # <<>>) =>
          pubQ' = pubQ \o pubOut']_vars

\* C33: whenever no published event is in flight between the publisher of
\* the API and the proxy, the server cache holds exactly the certificates of
\* the store, each with its public key and type, so that a deleted
\* certificate is in no lookup, list or snapshot once the feed is drained.
C33_CacheMirrorsStore ==
    pubQ = <<>> => {cert_cache[k] : k \in DOMAIN cert_cache} = {files[n] : n \in DOMAIN files}

\* snapshots of two certificates whose second pair cannot be read: a type
\* text that is no type, a meta without a name, and a public key frame that
\* is not text
PartlyMalformedAdds ==
    {<<<<"str", "">>, <<"str", "ADD">>, <<"pub", 1>>, <<"meta", "luke", "user">>,
       <<"pub", 2>>, <<"meta", "r2d2", "moo">>>>,
     <<<<"str", "">>, <<"str", "ADD">>, <<"pub", 1>>, <<"meta", "luke", "user">>,
       <<"pub", 2>>, <<"meta", NoMeta, "host">>>>,
     <<<<"str", "">>, <<"str", "ADD">>, <<"pub", 1>>, <<"meta", "luke", "user">>,
       <<"bin", 0>>, <<"meta", "r2d2", "host">>>>}

\* C34: applying an update event is all or nothing: whenever
\* CertCache::recv returns an error the cache is as it was before the call,
\* so the server cache holds no certificate of an event ZapSubscriber::recv
\* did not forward; also for an ADD of several pairs of which a later one is
\* malformed.
C34_RecvAllOrNothing ==
    /\ last.op = "event" => (last.err = "" /\ xpubOut # <<>>)
    /\ \A msg \in PartlyMalformedAdds :
           LET r == ZapSubscriber_recv(cert_cache, msg)
           IN  /\ r.err # ""
               /\ r.xpub = <<>>
               /\ r.cache = cert_cache

\* C35: every ZAP request the worker reads from the zap socket is answered
\* with exactly one reply, 200 or 400, in the step that reads it, before any
\* other socket is handled; also a request of a wrong version or with a key
\* of a wrong length.
C35_EveryZapRequestAnswered ==
    last.op = "zap" =>
        /\ Len(zapOut) = 1
        /\ zapOut[1][3] \in {<<"str", "200">>, <<"str", "400">>}

ApiOps == {"cert::list", "cert::lookup", "cert::create", "cert::delete"}

\* C36: every dispatched API request produces exactly one reply on the API
\* socket: one Ok reply when the handler returns Ok, one Err reply from
\* error_handler when it returns an error, never both.
C36_OneReplyPerRequest ==
    last.op \in ApiOps =>
        /\ Len(apiOut) = 1
        /\ apiOut[1][1] = RouterId
        /\ IF last.err = ""
           THEN apiOut[1][2] = <<"str", "Ok">>
           ELSE /\ apiOut[1][2] = <<"str", "">>
                /\ apiOut[1][3] = <<"str", "Err">>

C36_Witness ==
    /\ last.op = "cert::create"
    /\ last.err = "CertNameCollision"
    /\ Len(apiOut) = 1
    /\ apiOut[1][3] = <<"str", "Err">>

\* C37: cert::create and cert::delete take the argument frames of the
\* request from the API socket only after the peer passed the check: a
\* request whose peer is not a user (or has no metadata) is rejected with no
\* argument frame read, and a request that succeeds had all of its argument
\* frames read.
C37_ArgsReadAfterAuth ==
    last.op \in {"cert::create", "cert::delete"} =>
        /\ last.peer # "user" =>
               /\ last.err \in {"Forbidden", "InvalidCert"}
               /\ last.read = 0
        /\ last.err = "" =>
               last.read = (IF last.op = "cert::create" THEN 2 ELSE 1)

C37_Witness ==
    /\ last.op = "cert::delete"
    /\ last.peer = "host"
    /\ last.err = "Forbidden"
    /\ last.read = 0
    /\ "luke" \in DOMAIN files

\* the feed is quiet: no event waits at the proxy, none is on its way to the
\* worker, and the worker's subscription was handled
FeedQuiet == pubQ = <<>> /\ feedQ = <<>> /\ wstate = "subscribed" /\ wrunning

\* C38: a handler without self-seed that subscribed with the empty topic
\* holds exactly the public keys of the server cache whenever the feed is
\* quiet, whatever the order of creates, deletes, snapshots and events was.
C38_ClientCatchesUp ==
    (FeedQuiet /\ wtopic = "" /\ ~allow_self) => DOMAIN wcache = DOMAIN cert_cache

C38_Witness ==
    /\ FeedQuiet /\ wtopic = "" /\ ~allow_self
    /\ last.op = "feed"
    /\ wlog[1] = "DEL"
    /\ DOMAIN wcache = {2}
    /\ DOMAIN cert_cache = {2}

\* C39: the cache of a handler that subscribed with the type "host" or
\* "user" holds no certificate of the other type, its own self-seed
\* certificate apart.
C39_TypedClientCache ==
    wtopic \in {"host", "user"} =>
        \A k \in DOMAIN wcache :
            \/ allow_self /\ k = SelfKey
            \/ wcache[k].cert_type = from_str(wtopic)

C39_Witness ==
    /\ wtopic = "user"
    /\ allow_self
    /\ FeedQuiet
    /\ DOMAIN wcache = {SelfKey, 1}
    /\ wcache[1].cert_type = "User"
    /\ DOMAIN cert_cache = {1, 2}

\* the index maps a name to a key exactly when a certificate of that name
\* and key is stored
IndexMirrors == name_cache = [n \in DOMAIN files |-> files[n].key]

DiskUnchanged == files' = files /\ name_cache' = name_cache

\* C40: the name index of the disk backend mirrors the store after any
\* sequence of create, read, delete and dump; a create of a stored name fails
\* with a name collision and a delete of a missing name fails, both leaving
\* index and store as they were; dump returns one certificate per entry of
\* the index, with the name and the key of that entry.
C40_IndexMirrorsStore ==
    /\ []IndexMirrors
    /\ [][/\ (last'.op = "create" /\ last'.name \in DOMAIN files) =>
                 (last'.err = "CertNameCollision" /\ DiskUnchanged)
          /\ (last'.op = "delete" /\ last'.name \notin DOMAIN files) =>
                 (last'.err # "" /\ DiskUnchanged)
          /\ (last'.op \in {"create", "delete"} /\ last'.err # "") => DiskUnchanged
          /\ (last'.op = "dump") =>
                 /\ {c.name : c \in last'.certs} = DOMAIN name_cache'
                 /\ \A c \in last'.certs : name_cache'[c.name] = c.key
                 /\ Cardinality(last'.certs) = Cardinality(DOMAIN files)
                 /\ DiskUnchanged]_vars

C40_Witness ==
    /\ last.op = "create"
    /\ last.err = "CertNameCollision"
    /\ last.name = "r2d2"
    /\ DOMAIN files = {"luke", "r2d2"}
    /\ name_cache = [n \in DOMAIN files |-> files[n].key]

====
